---- MODULE Spec2Model ----
(***************************************************************************)
(* A model of the IRV margin analyzer: the ballot trie (node.py), the .blt *)
(* parser (blt.py) and the IRV round engine and margin bounds (irv.py).    *)
(*                                                                         *)
(* Python objects are modelled on an explicit heap: a Node is a heap cell  *)
(* holding its value and a reference to its _children dict, and a dict is  *)
(* a heap cell holding a map from candidate to Node reference.  Aliasing   *)
(* (Node._merge adopts the dict of the node it merges in) and deep copies  *)
(* are therefore visible in the model.                                     *)
(***************************************************************************)
EXTENDS Integers, Sequences, FiniteSets, TLC

VARIABLES heap, file, election, pc, n2, ret, ops, wl, ub, log, disk

vars == <<heap, file, election, pc, n2, ret, ops, wl, ub, log, disk>>

(***************************************************************************)
(* Bounds of the model.                                                    *)
(***************************************************************************)
MaxCand == 3        \* candidates K in the enumerated .blt files
MaxLines == 2       \* ballot lines in the enumerated .blt files
MaxTokens == 3      \* tokens on one ballot line
MaxOps == 2         \* trie mutations applied after parsing
MaxLinesTrie == 2   \* ballot lines of the files the trie operations start from
MaxMargin == 2      \* the margin m passed to _modify_margin
MaxCandUb == 4      \* candidates of the files irv_ub alone is run on
MaxLinesUb == 2     \* ballot lines of those files
MaxCandSel == 4     \* candidates of the files the selector is run on
MaxLinesSel == 6    \* single-candidate ballot lines of those files
MaxLinesMargin == 3 \* ballot lines of the files whose three bounds are compared
MaxDirty == 2       \* tokens of a line that may hold -, = or a repeated candidate
MaxCandReduce == 5  \* candidates of the files reduce is applied twice to
MaxLinesReduce == 2 \* ballot lines of those files
MaxLinesCondorcet == 3 \* ballot lines of the files the Condorcet matrix is built from
MaxLinesBlt == 3    \* ballot lines of the files that are written and read again
MaxElapsed == 2     \* the time budget of irv_margin, and the most that passes between pops
MaxPops == 2        \* pops of the search at which time is found to have passed
MaxSlow == 3        \* calls of distance_to up to which the solver may time out
MaxCandElim == 4    \* candidates of the files two candidates are eliminated from
MaxTime == 2        \* the latest time the clock behind the modification times reaches
MaxLinesCache == 2  \* ballot lines written to the .blt file that is read through the cache

(***************************************************************************)
(* Generic helpers.                                                        *)
(***************************************************************************)
\* Python None, as a reference: no heap cell has index 0.
None == 0

\* a local variable: val is evaluated, then Body is applied to its value
Let(val, Body(_)) == CHOOSE r \in {Body(v) : v \in {val}} : TRUE

SetMin(S) == CHOOSE x \in S : \A y \in S : x <= y

\* Iteration order of a dict or set of small integers in CPython 2: the keys
\* hash to themselves, so they come out in ascending order.
RECURSIVE iterkeys(_)
iterkeys(S) == IF S = {} THEN <<>>
               ELSE LET m == SetMin(S) IN <<m>> \o iterkeys(S \ {m})

Range(s) == {s[i] : i \in DOMAIN s}

RECURSIVE Perms(_)
\* the lists that hold every member of S once
Perms(S) == IF S = {} THEN {<<>>}
            ELSE UNION {{<<x>> \o p : p \in Perms(S \ {x})} : x \in S}

RECURSIVE SumOver(_, _)
SumOver(f, S) == IF S = {} THEN 0
                 ELSE LET x == CHOOSE y \in S : TRUE IN f[x] + SumOver(f, S \ {x})

(***************************************************************************)
(* The heap.  nodes[i] = [value, children] with children a dict reference; *)
(* dicts[d] = the map of dict d.                                           *)
(***************************************************************************)
EmptyHeap == [nodes |-> <<>>, dicts |-> <<>>]

NewDict(H) == [h |-> [H EXCEPT !.dicts = Append(@, <<>>)], r |-> Len(H.dicts) + 1]

\* Node.__init__(value, children): an absent or empty children dict is
\* replaced by a fresh dict.
Node(H, value, children) ==
    IF children # None /\ DOMAIN H.dicts[children] # {}
    THEN [h |-> [H EXCEPT !.nodes = Append(@, [value |-> value, children |-> children])],
          r |-> Len(H.nodes) + 1]
    ELSE [h |-> [H EXCEPT !.dicts = Append(@, <<>>),
                          !.nodes = Append(@, [value |-> value,
                                               children |-> Len(H.dicts) + 1])],
          r |-> Len(H.nodes) + 1]

_children(H, self) == H.dicts[H.nodes[self].children]

has_child(H, self, c) == c \in DOMAIN _children(H, self)

children(H, self) == DOMAIN _children(H, self)

num_children(H, self) == Cardinality(DOMAIN _children(H, self))

iterchildren(H, self) == iterkeys(DOMAIN _children(H, self))

\* get_child: the child, created first if necessary.
get_child(H, self, c) ==
    IF c \in DOMAIN _children(H, self)
    THEN [h |-> H, r |-> _children(H, self)[c]]
    ELSE Let(Node(H, 0, None),
             LAMBDA n : [h |-> [n.h EXCEPT !.dicts[H.nodes[self].children] = (c :> n.r) @@ @],
                         r |-> n.r])

delete_child(H, self, c) ==
    LET d == H.nodes[self].children
    IN [H EXCEPT !.dicts[d] = [x \in (DOMAIN @) \ {c} |-> @[x]]]

SetValue(H, self, v) == [H EXCEPT !.nodes[self].value = v]

RECURSIVE _merge(_, _, _)
RECURSIVE MergeChildren(_, _, _, _)

\* for name, node in n._children.iteritems(): self.get_child(name)._merge(node)
MergeChildren(H, self, n, names) ==
    IF names = <<>> THEN H
    ELSE Let(get_child(H, self, Head(names)),
             LAMBDA g : MergeChildren(_merge(g.h, g.r, _children(H, n)[Head(names)]),
                                      self, n, Tail(names)))

\* Node._merge: add the value; adopt n's dict when self has no children,
\* otherwise merge n's children one by one.
_merge(H, self, n) ==
    Let(SetValue(H, self, H.nodes[self].value + H.nodes[n].value),
        LAMBDA H1 : IF DOMAIN _children(H1, self) = {}
                    THEN [H1 EXCEPT !.nodes[self].children = H1.nodes[n].children]
                    ELSE MergeChildren(H1, self, n, iterchildren(H1, n)))

RECURSIVE eliminate(_, _, _)
RECURSIVE EliminateBelow(_, _, _, _)

\* for _, node in self._children.iteritems(): node.eliminate(c)
EliminateBelow(H, self, names, c) ==
    IF names = <<>> THEN H
    ELSE EliminateBelow(eliminate(H, _children(H, self)[Head(names)], c),
                        self, Tail(names), c)

\* A variant, not the program's: c is removed at this node only.
eliminate_here(H, self, c) ==
    IF c \in DOMAIN _children(H, self)
    THEN Let(delete_child(H, self, c),
             LAMBDA Hd : MergeChildren(Hd, self, _children(H, self)[c],
                                       iterchildren(Hd, _children(H, self)[c])))
    ELSE H

\* Node.eliminate: remove the child c, merge c's children into self's
\* children, then eliminate c below every child.
eliminate(H, self, c) ==
    Let(IF c \in DOMAIN _children(H, self)
        THEN Let(delete_child(H, self, c),
                 LAMBDA Hd : MergeChildren(Hd, self, _children(H, self)[c],
                                           iterchildren(Hd, _children(H, self)[c])))
        ELSE H,
        LAMBDA H1 : EliminateBelow(H1, self, iterchildren(H1, self), c))

RECURSIVE _reduce(_, _, _, _, _)
RECURSIVE ReduceBelow(_, _, _, _, _)
RECURSIVE EliminateRange(_, _, _, _, _)

\* for c, node in self._children.iteritems(): node._reduce(c, elim_order, start)
ReduceBelow(H, self, names, elim_order, start) ==
    IF names = <<>> THEN H
    ELSE ReduceBelow(_reduce(H, _children(H, self)[Head(names)], Head(names),
                             elim_order, start),
                     self, Tail(names), elim_order, start)

\* A variant, not the program's: of the candidates of the range only the first
\* that is a child of the node is eliminated.
EliminateFirstChild(H, self, elim_order, i, idx) ==
    LET found == {a \in (i + 1)..idx : elim_order[a] \in children(H, self)}
    IN IF found = {} THEN H ELSE eliminate(H, self, elim_order[SetMin(found)])

\* for i in range(start, idx): self.eliminate(elim_order[i])   (0-based i)
EliminateRange(H, self, elim_order, i, idx) ==
    IF i >= idx THEN H
    ELSE EliminateRange(eliminate(H, self, elim_order[i + 1]), self, elim_order,
                        i + 1, idx)

index(s, c) == (CHOOSE i \in DOMAIN s : s[i] = c /\ \A j \in 1..(i - 1) : s[j] # c) - 1

_reduce(H, self, c, elim_order, start) ==
    LET k == Len(elim_order) IN
    IF c = elim_order[k] \/ c = elim_order[k - 1]
    THEN [H EXCEPT !.dicts[H.nodes[self].children] = <<>>]
    ELSE Let(EliminateRange(H, self, elim_order, start, index(elim_order, c)),
             LAMBDA H1 : ReduceBelow(H1, self, iterchildren(H1, self), elim_order,
                                     start + 1))

\* Node.reduce; the assertion on the length is the caller's obligation.
reduce(H, self, elim_order) ==
    IF Len(elim_order) < 2 THEN H
    ELSE ReduceBelow(H, self, iterchildren(H, self), elim_order, 0)

(***************************************************************************)
(* copy.deepcopy of a Node.  The memo maps every object already copied to  *)
(* its copy, so sharing inside the original is reproduced in the copy.     *)
(***************************************************************************)
RECURSIVE DeepcopyNode(_, _, _)
RECURSIVE DeepcopyItems(_, _, _, _, _)

\* the items of dict d copied one by one into the new dict nd
DeepcopyItems(H, memo, d, nd, names) ==
    IF names = <<>> THEN [h |-> H, memo |-> memo]
    ELSE Let(DeepcopyNode(H, memo, H.dicts[d][Head(names)]),
             LAMBDA c : DeepcopyItems([c.h EXCEPT !.dicts[nd] = (Head(names) :> c.r) @@ @],
                                      c.memo, d, nd, Tail(names)))

\* Node.__deepcopy__: Node(value=self.value, children=deepcopy(self._children))
DeepcopyNode(H, memo, self) ==
    IF self \in DOMAIN memo.n THEN [h |-> H, memo |-> memo, r |-> memo.n[self]]
    ELSE LET d == H.nodes[self].children
             nd == NewDict(H)
         IN Let(IF d \in DOMAIN memo.d
                THEN [h |-> H, memo |-> memo, r |-> memo.d[d]]
                ELSE Let(DeepcopyItems(nd.h, [memo EXCEPT !.d = (d :> nd.r) @@ @], d, nd.r,
                                       iterkeys(DOMAIN H.dicts[d])),
                         LAMBDA it : [h |-> it.h, memo |-> it.memo, r |-> nd.r]),
                LAMBDA cd :
                    Let(Node(cd.h, H.nodes[self].value, cd.r),
                        LAMBDA n : [h |-> n.h,
                                    memo |-> [cd.memo EXCEPT !.n = (self :> n.r) @@ @],
                                    r |-> n.r]))

\* A variant, not the program's: copy.copy, a new Node on the same dict.
shallowcopy(H, self) == Node(H, H.nodes[self].value, H.nodes[self].children)

deepcopy(H, self) ==
    Let(DeepcopyNode(H, [n |-> <<>>, d |-> <<>>], self), LAMBDA c : [h |-> c.h, r |-> c.r])

(***************************************************************************)
(* Views of a heap tree as a value: structural equality is equality of     *)
(* these values.                                                           *)
(***************************************************************************)
RECURSIVE Tree(_, _)
Tree(H, self) ==
    [value |-> H.nodes[self].value,
     kids |-> [c \in DOMAIN _children(H, self) |-> Tree(H, _children(H, self)[c])]]

RECURSIVE NodesOf(_, _)
NodesOf(H, self) ==
    {self} \cup UNION {NodesOf(H, _children(H, self)[c]) : c \in DOMAIN _children(H, self)}

RECURSIVE PathsOf(_, _, _)
\* the nodes of a tree, each with the list of candidates that leads to it
PathsOf(H, self, b) ==
    {<<b, self>>} \cup UNION {PathsOf(H, _children(H, self)[c], Append(b, c)) :
                                 c \in DOMAIN _children(H, self)}

DictsOf(H, self) == {H.nodes[i].children : i \in NodesOf(H, self)}

(***************************************************************************)
(* blt.py: _read_blt.  A file is [K, seats, lines, names, description]; a   *)
(* ballot line is the token list of one ballot: a candidate id, Skip for   *)
(* "-", or Equal for a token with "="; a name or description line is its   *)
(* list of characters.                                                     *)
(***************************************************************************)
Skip == 0
Equal == -1

RECURSIVE ReadChoices(_, _, _, _)
\* for c in choices: ... curr = curr.get_child(c); curr.value += 1
ReadChoices(H, curr, seen, choices) ==
    IF choices = <<>> THEN H
    ELSE LET c == Head(choices) IN
         IF c = Skip THEN ReadChoices(H, curr, seen, Tail(choices))
         ELSE IF c = Equal THEN H
         ELSE IF c \in seen THEN ReadChoices(H, curr, seen, Tail(choices))
         ELSE Let(get_child(H, curr, c),
                  LAMBDA g : ReadChoices(SetValue(g.h, g.r, g.h.nodes[g.r].value + 1), g.r,
                                         seen \cup {c}, Tail(choices)))

RECURSIVE ReadLines(_, _, _)
\* while True: line = f.readline() ...: the ballot lines read in file order
\* (the list is folded by halves, the first half read before the second,
\* which keeps the evaluation of a long file shallow)
ReadLines(H, root, lines) ==
    IF lines = <<>> THEN H
    ELSE IF Len(lines) = 1 THEN ReadChoices(H, root, {}, lines[1])
    ELSE Let(ReadLines(H, root, SubSeq(lines, 1, Len(lines) \div 2)),
             LAMBDA H1 : ReadLines(H1, root,
                                   SubSeq(lines, (Len(lines) \div 2) + 1, Len(lines))))

RECURSIVE RootChildren(_, _, _, _)
\* for c in xrange(1, num_candidates+1): root.get_child(c)
RootChildren(H, root, c, K) ==
    IF c > K THEN H ELSE RootChildren(get_child(H, root, c).h, root, c + 1, K)

\* ranks = max(ranks, len(choices)) over the ballot lines
MaxLen(lines) == IF lines = <<>> THEN 0
                 ELSE CHOOSE m \in {Len(lines[i]) : i \in DOMAIN lines} :
                         \A i \in DOMAIN lines : Len(lines[i]) <= m

\* A variant, not the program's: only the last character is dropped.
SliceOne(line) == SubSeq(line, 2, Len(line) - 1)

\* f.readline()[1:-2]: the line without its first and its last two characters
Slice(line) == SubSeq(line, 2, Len(line) - 2)

\* _read_blt: the Election of the file, on a heap that holds its profile.
_read_blt(H, f) ==
    Let(Node(H, 0, None),
        LAMBDA r : [h |-> SetValue(ReadLines(RootChildren(r.h, r.r, 1, f.K), r.r, f.lines),
                                   r.r, Len(f.lines)),
                    r |-> [names |-> [c \in 1..f.K |-> Slice(f.names[c])],
                           profile |-> r.r, ranks |-> MaxLen(f.lines),
                           seats |-> f.seats, description |-> Slice(f.description)]])

(***************************************************************************)
(* blt.py: write_blt.  The result is the file written.                     *)
(***************************************************************************)
RECURSIVE _write_blt(_, _, _, _)
RECURSIVE WriteChildren(_, _, _, _, _)
\* for c, n in root.iterchildren(): b.append(c); _write_blt(f, n, ranks, b);
\* b.pop()
WriteChildren(H, root, todo, ranks, b) ==
    IF todo = {} THEN <<>>
    ELSE _write_blt(H, _children(H, root)[SetMin(todo)], ranks, Append(b, SetMin(todo)))
             \o WriteChildren(H, root, todo \ {SetMin(todo)}, ranks, b)

\* the lines of the subtree, then root.value - num times the line of b,
\* padded with "-" to ranks choices
_write_blt(H, root, ranks, b) ==
    LET num == SumOver([c \in children(H, root) |-> H.nodes[_children(H, root)[c]].value],
                       children(H, root))
    IN WriteChildren(H, root, children(H, root), ranks, b)
           \o (IF H.nodes[root].value > num
               THEN [i \in 1..(H.nodes[root].value - num) |->
                        b \o [j \in 1..(ranks - Len(b)) |-> Skip]]
               ELSE <<>>)

\* write_blt(path, election): the header, the ballots, and the quoted names
\* and description
write_blt(H, e) ==
    [K |-> Len(e.names), seats |-> e.seats,
     lines |-> _write_blt(H, e.profile, e.ranks, <<>>),
     names |-> [n \in 1..Len(e.names) |-> <<"\"">> \o e.names[n] \o <<"\"", "\n">>],
     description |-> <<"\"">> \o e.description \o <<"\"", "\n">>]

(***************************************************************************)
(* irv.py: the elimination-set selector.                                   *)
(***************************************************************************)
BASE_IRV_RULES == 0
SFRCV_RULES == 1
COMPLETE_IRV_RULES == 2
Rules == {BASE_IRV_RULES, SFRCV_RULES, COMPLETE_IRV_RULES}

\* sys.maxint (of a 32-bit build, the integer width of the checker)
maxint == 2147483647

\* root.get_child(c).value where c is one of root's children (no insertion)
child_value(H, root, c) == Let(get_child(H, root, c), LAMBDA g : g.h.nodes[g.r].value)

RECURSIVE LowScan(_, _, _, _, _)
\* for c, n in root.iterchildren(): if n.value < low_votes: ...
LowScan(H, root, names, low_candidate, low_votes) ==
    IF names = <<>> THEN low_candidate
    ELSE LET v == H.nodes[_children(H, root)[Head(names)]].value
         IN IF v < low_votes THEN LowScan(H, root, Tail(names), Head(names), v)
            ELSE LowScan(H, root, Tail(names), low_candidate, low_votes)

RECURSIVE sorted(_, _)
\* sorted(seq, key): stable, ascending by key
sorted(seq, key) ==
    IF seq = <<>> THEN <<>>
    ELSE LET i == CHOOSE a \in DOMAIN seq :
                      /\ \A b \in DOMAIN seq : key[seq[a]] <= key[seq[b]]
                      /\ \A b \in 1..(a - 1) : key[seq[b]] > key[seq[a]]
         IN <<seq[i]>> \o sorted(SubSeq(seq, 1, i - 1) \o SubSeq(seq, i + 1, Len(seq)), key)

RECURSIVE groupby(_, _)
\* ((k, len(tuple(g))) for k, g in itertools.groupby(seq, key))
groupby(seq, key) ==
    IF seq = <<>> THEN <<>>
    ELSE LET k == key[seq[1]]
             run == CHOOSE n \in 1..Len(seq) :
                        /\ \A a \in 1..n : key[seq[a]] = k
                        /\ n < Len(seq) => key[seq[n + 1]] # k
         IN <<[k |-> k, num |-> run]>> \o groupby(SubSeq(seq, run + 1, Len(seq)), key)

\* A variant, not the program's: a prefix is also taken when it ties the next
\* group.
EliminableOrTied(n, k) == n <= k

\* if n < k: the votes of the prefix are fewer than those of the next group
Eliminable(n, k) == n < k

RECURSIVE GroupScan(_, _, _, _, _, _)
\* for k, num in groups: if n < k: i = j; record the prefix ...
GroupScan(groups, sorted_candidates, n, i, j, all_sets) ==
    IF groups = <<>> THEN [i |-> i, all_sets |-> all_sets]
    ELSE LET g == Head(groups)
             hit == Eliminable(n, g.k)
             i1 == IF hit THEN j ELSE i
             as1 == IF hit /\ i1 > 0
                    THEN Append(all_sets, Range(SubSeq(sorted_candidates, 1, i1)))
                    ELSE all_sets
         IN GroupScan(Tail(groups), sorted_candidates, n + g.k * g.num, i1,
                      j + g.num, as1)

\* _elimination_set(root, rules, all_sets): [set, all_sets]
_elimination_set(H, root, rules) ==
    IF rules = BASE_IRV_RULES \/ rules = COMPLETE_IRV_RULES
    THEN [set |-> {LowScan(H, root, iterchildren(H, root), 0, maxint)}, all_sets |-> <<>>]
    ELSE Let([c \in children(H, root) |-> child_value(H, root, c)], LAMBDA key :
         Let(sorted(iterchildren(H, root), key), LAMBDA sorted_candidates :
         Let(GroupScan(groupby(sorted_candidates, key), sorted_candidates, 0, 0, 0, <<>>),
             LAMBDA sc :
                [set |-> IF sc.i = 0
                         THEN Range(SubSeq(sorted_candidates, 1,
                                           IF Len(sorted_candidates) > 0 THEN 1 ELSE 0))
                         ELSE Range(SubSeq(sorted_candidates, 1, sc.i)),
                 all_sets |-> sc.all_sets])))

(***************************************************************************)
(* irv.py: irv_round and irv.  A result carries exc, the exception that    *)
(* ended the call ("" when it returned), and winner as a sequence: <<>> is *)
(* Python's None, <<c>> is candidate c.                                    *)
(***************************************************************************)
RECURSIVE HighScan(_, _, _, _, _)
\* for c, n in root.iterchildren(): if n.value > high_votes: ...
HighScan(H, root, names, high_candidate, high_votes) ==
    IF names = <<>> THEN [high_candidate |-> high_candidate, high_votes |-> high_votes]
    ELSE LET v == H.nodes[_children(H, root)[Head(names)]].value
         IN IF v > high_votes THEN HighScan(H, root, Tail(names), Head(names), v)
            ELSE HighScan(H, root, Tail(names), high_candidate, high_votes)

\* A variant, not the program's: the candidates stay in the tree.
EliminateNone(H, root, cs) == H

RECURSIVE EliminateAll(_, _, _)
\* for c in lowest: root.eliminate(c)
EliminateAll(H, root, cs) ==
    IF cs = <<>> THEN H ELSE EliminateAll(eliminate(H, root, Head(cs)), root, Tail(cs))

\* A variant, not the program's: a majority does not end the count.
TerminatesAtTwo(rules, high_votes, num_votes, nchildren) == nchildren <= 2

\* The majority test of irv_round.
Terminates(rules, high_votes, num_votes, nchildren) ==
    (rules # COMPLETE_IRV_RULES /\ high_votes * 2 > num_votes) \/ nchildren <= 2

\* One iteration of the while loop of irv_round on the loop state st.
Round(st, rules) ==
    LET H == st.h
        root == st.root
        r == st.r + 1
    IN
    Let([c \in children(H, root) |-> H.nodes[_children(H, root)[c]].value], LAMBDA tally :
    Let(HighScan(H, root, iterchildren(H, root), 0, 0), LAMBDA hs :
    Let([c \in DOMAIN st.counts |->
            IF c \in DOMAIN tally THEN [st.counts[c] EXCEPT ![r] = tally[c]]
            ELSE st.counts[c]], LAMBDA counts :
    Let([tally |-> tally, high_candidate |-> hs.high_candidate,
         high_votes |-> hs.high_votes, num_votes |-> SumOver(tally, DOMAIN tally)],
        LAMBDA seen :
       IF DOMAIN tally \cap st.eliminated # {}
       THEN [st EXCEPT !.r = r, !.exc = "AssertionError"]
       ELSE IF Terminates(rules, hs.high_votes, seen.num_votes, num_children(H, root))
       THEN LET final_elim == st.candidates \ st.eliminated
            IN IF hs.high_candidate \notin final_elim
               THEN [st EXCEPT !.r = r, !.counts = counts,
                               !.winner = <<hs.high_candidate>>, !.exc = "KeyError",
                               !.trace = Append(@, seen @@ [declared |-> TRUE, lowest |-> {}])]
               ELSE [st EXCEPT !.r = r, !.counts = counts,
                               !.winner = <<hs.high_candidate>>,
                               !.elimination = Append(@, final_elim \ {hs.high_candidate}),
                               !.trace = Append(@, seen @@ [declared |-> TRUE,
                                            lowest |-> final_elim \ {hs.high_candidate}])]
       ELSE Let(_elimination_set(H, root, rules).set, LAMBDA lowest :
                [st EXCEPT !.r = r, !.counts = counts,
                           !.h = EliminateAll(H, root, iterkeys(lowest)),
                           !.eliminated = @ \cup lowest,
                           !.elimination = Append(@, lowest),
                           !.trace = Append(@, seen @@ [declared |-> FALSE,
                                                        lowest |-> lowest])])))))

RECURSIVE RoundLoop(_, _, _)
\* while r < rounds: ...   (break once a winner is declared)
RoundLoop(st, rounds, rules) ==
    IF st.r >= rounds \/ st.winner # <<>> \/ st.exc # "" THEN st
    ELSE RoundLoop(Round(st, rules), rounds, rules)

\* irv_round(profile, rounds, rules): works on a deep copy of the profile.
irv_round(H, profile, rounds, rules) ==
    Let(deepcopy(H, profile), LAMBDA cp :
    Let(RoundLoop([h |-> cp.h, root |-> cp.r, candidates |-> children(cp.h, cp.r),
                   eliminated |-> {}, winner |-> <<>>,
                   counts |-> [c \in children(cp.h, cp.r) |-> [i \in 1..rounds |-> 0]],
                   elimination |-> <<>>, r |-> 0, exc |-> "", trace |-> <<>>],
                  rounds, rules), LAMBDA st :
        [st EXCEPT !.counts = [c \in DOMAIN @ |-> SubSeq(@[c], 1, st.r)]]))

\* irv(election, rules)
irv(H, e, rules) == irv_round(H, e.profile, num_children(H, e.profile), rules)

(***************************************************************************)
(* irv.py: irv_simple_lb.                                                  *)
(***************************************************************************)
RECURSIVE Touch(_, _, _)
\* the heap after root.get_child(c) for every c of the sequence cs
Touch(H, root, cs) ==
    IF cs = <<>> THEN H ELSE Touch(get_child(H, root, Head(cs)).h, root, Tail(cs))

Min(a, b) == IF a <= b THEN a ELSE b

\* A variant, not the program's: the largest tally of elim_set is subtracted
\* instead of the sum.
RoundMarginOverLargest(H, root, continuing, elim_set) ==
    Let([c \in continuing \cup elim_set |-> child_value(H, root, c)], LAMBDA v :
        SetMin({v[c] : c \in continuing}) - (0 - SetMin({0 - v[c] : c \in elim_set})))

\* min(root.get_child(c).value for c in continuing)
\*     - sum(root.get_child(c).value for c in elim_set)
RoundMargin(H, root, continuing, elim_set) ==
    Let([c \in continuing \cup elim_set |-> child_value(H, root, c)], LAMBDA v :
        SetMin({v[c] : c \in continuing}) - SumOver(v, elim_set))

RECURSIVE SimpleLbLoop(_, _, _, _)
\* while winner is None: ...
SimpleLbLoop(H, root, lb, rules) ==
    Let(_elimination_set(H, root, rules).set, LAMBDA elim_set :
    Let(children(H, root) \ elim_set, LAMBDA continuing :
    Let(Touch(H, root, iterkeys(continuing)), LAMBDA H1 :
        IF continuing = {} THEN [h |-> H1, exc |-> "ValueError", value |-> lb]
        ELSE Let(Touch(H1, root, iterkeys(elim_set)), LAMBDA H2 :
             Let(Min(lb, RoundMargin(H2, root, continuing, elim_set)), LAMBDA lb1 :
             Let(irv_round(H2, root, 1, rules), LAMBDA rd :
                 IF rd.exc # "" THEN [h |-> rd.h, exc |-> rd.exc, value |-> lb1]
                 ELSE IF rd.winner # <<>> THEN [h |-> rd.h, exc |-> "", value |-> lb1]
                 ELSE SimpleLbLoop(rd.h, rd.root, lb1, rules)))))))

irv_simple_lb(H, e, rules) == SimpleLbLoop(H, e.profile, maxint, rules)

(***************************************************************************)
(* irv.py: _modify_margin and its inner _steal_votes.                      *)
(***************************************************************************)
RECURSIVE Concat(_)
Concat(ss) == IF ss = <<>> THEN <<>> ELSE iterkeys(Head(ss)) \o Concat(Tail(ss))

\* list.remove(x): the list without the first occurrence of x
remove(s, x) == LET i == index(s, x) + 1 IN SubSeq(s, 1, i - 1) \o SubSeq(s, i + 1, Len(s))

steal_from_order(j, k, elim_order, w) ==
    remove(Concat(Tail(elim_order)) \o <<w>> \o iterkeys(elim_order[1] \ {j}) \o <<j>>, k)

\* A variant, not the program's: the count is not capped by the node's value.
StealUncapped(value, m) == (m \div 2) + 1

\* x = min(node.value, math.floor(m/2)+1)
StealCount(value, m) == Min(value, (m \div 2) + 1)

\* A variant, not the program's: the children are not tried.
StealNoChildren(H, root, node, m, j, order, cs, changed) ==
    [h |-> H, changed |-> changed, m |-> m, exc |-> "", stop |-> FALSE]

RECURSIVE _steal_votes(_, _, _, _, _, _)
RECURSIVE StealChildren(_, _, _, _, _, _, _, _)

\* for c in steal_from_order: if node.has_child(c): ...
StealChildren(H, root, node, m, j, order, cs, changed) ==
    IF cs = <<>> THEN [h |-> H, changed |-> changed, m |-> m, exc |-> "", stop |-> FALSE]
    ELSE LET c == Head(cs)
             child == _children(H, node)[Head(cs)]
         IN
         IF ~has_child(H, node, c)
         THEN StealChildren(H, root, node, m, j, order, Tail(cs), changed)
         ELSE Let(_steal_votes(H, root, child, m, j, order), LAMBDA s :
              Let(SetValue(s.h, node, s.h.nodes[node].value - s.changed), LAMBDA H1 :
              Let(IF H1.nodes[child].value = 0 THEN delete_child(H1, node, c) ELSE H1,
                  LAMBDA H2 :
                 IF s.exc # "" THEN [s EXCEPT !.changed = changed + s.changed] @@ [stop |-> TRUE]
                 ELSE IF s.h.nodes[child].value < 0
                 THEN [h |-> s.h, changed |-> changed, m |-> s.m, exc |-> "AssertionError",
                       stop |-> TRUE]
                 ELSE IF s.m < 0
                 THEN [h |-> H2, changed |-> changed + s.changed, m |-> s.m, exc |-> "",
                       stop |-> TRUE]
                 ELSE StealChildren(H2, root, node, s.m, j, order, Tail(cs),
                                    changed + s.changed))))

\* _steal_votes(node, m, path): first the children in steal order, then the
\* node's own ballots.  Returns [h, changed, m, exc].
_steal_votes(H, root, node, m, j, order) ==
    Let(StealChildren(H, root, node, m, j, order, order, 0), LAMBDA sc :
        IF sc.stop THEN [h |-> sc.h, changed |-> sc.changed, m |-> sc.m, exc |-> sc.exc]
        ELSE IF sc.h.nodes[node].value > 0
        THEN Let(StealCount(sc.h.nodes[node].value, sc.m), LAMBDA x :
                 IF x > 0
                 THEN Let(get_child(SetValue(sc.h, node, sc.h.nodes[node].value - x), root, j),
                          LAMBDA g : [h |-> SetValue(g.h, g.r, g.h.nodes[g.r].value + x),
                                      changed |-> sc.changed + x, m |-> sc.m - 2 * x,
                                      exc |-> ""])
                 ELSE [h |-> sc.h, changed |-> sc.changed, m |-> sc.m,
                       exc |-> "AssertionError"])
        ELSE [h |-> sc.h, changed |-> sc.changed, m |-> sc.m, exc |-> ""])

\* _modify_margin(root, m, j, k, elim_order, w): [h, changed, exc]
_modify_margin(H, root, m, j, k, elim_order, w) ==
    IF j \notin elim_order[1] \/ m < 0 THEN [h |-> H, changed |-> 0, exc |-> "AssertionError"]
    ELSE IF k \notin Range(Concat(Tail(elim_order)) \o <<w>>
                           \o iterkeys(elim_order[1] \ {j}) \o <<j>>)
    THEN [h |-> H, changed |-> 0, exc |-> "ValueError"]
    ELSE Let(get_child(H, root, k), LAMBDA g :
         Let(_steal_votes(g.h, root, g.r, m, j, steal_from_order(j, k, elim_order, w)),
             LAMBDA s : [h |-> s.h, changed |-> s.changed, exc |-> s.exc]))

(***************************************************************************)
(* cplex_ilp.py: distance_to.  A ballot signature is the tuple of          *)
(* elim_order positions (0-based) it ranks, kept as a set; its name in the *)
(* program is the string of the candidates at those positions, which is    *)
(* modelled by the sequence of those candidates.  The CPLEX solve is       *)
(* modelled by its contract: the least objective value over the integer    *)
(* points that satisfy the bounds and the constraints handed to it.        *)
(***************************************************************************)
RECURSIVE _tree_to_map_helper(_, _, _)
\* the (ballot, count) items put into the profile dict below the node root
_tree_to_map_helper(H, root, b) ==
    LET cs == children(H, root)
        num == SumOver([c \in cs |-> H.nodes[_children(H, root)[c]].value], cs)
        below == UNION {_tree_to_map_helper(H, _children(H, root)[c], Append(b, c)) :
                           c \in cs}
    IN IF H.nodes[root].value > num
       THEN below \cup {<<b, H.nodes[root].value - num>>}
       ELSE below

_tree_to_map(H, root) ==
    Let(_tree_to_map_helper(H, root, <<>>), LAMBDA items :
        [b \in {it[1] : it \in items} |-> (CHOOSE it \in items : it[1] = b)[2]])

\* _powerset(range(k), maxsize): the subsets of at most maxsize positions
_powerset(k, maxsize) == {sub \in SUBSET (0..(k - 1)) : Cardinality(sub) <= maxsize}

\* _ballot_to_name(elim_order[i] for i in subset)
_ballot_to_name(elim_order, subset) ==
    LET is == iterkeys(subset) IN [a \in DOMAIN is |-> elim_order[is[a] + 1]]

\* A variant, not the program's: r is not advanced past the first round.
FillFirstRound(special, a, i, r, stop) ==
    IF r > stop THEN [special |-> special, r |-> r]
    ELSE [special |-> [special EXCEPT ![r][i] = @ \cup {a}], r |-> r + 1]

RECURSIVE FillRounds(_, _, _, _, _)
\* for s in special[r:i+1]: s[i-r].append(signature); r += 1
\* special[r][i] stands for the program's special[r][i-r]; stop is the last
\* index of the slice, min(i, k-2); a is the index of the signature.
FillRounds(special, a, i, r, stop) ==
    IF r > stop THEN [special |-> special, r |-> r]
    ELSE FillRounds([special EXCEPT ![r][i] = @ \cup {a}], a, i, r + 1, stop)

RECURSIVE FillSubset(_, _, _, _, _)
\* r = 0; for i in subset: ...
FillSubset(special, a, is, r, k) ==
    IF is = <<>> THEN special
    ELSE Let(FillRounds(special, a, Head(is), r, Min(Head(is), k - 2)), LAMBDA f :
             FillSubset(f.special, a, Tail(is), f.r, k))

RECURSIVE FillAll(_, _, _, _)
\* the special inequality sets after the loop over the signatures names
FillAll(special, names, a, k) ==
    IF a > Len(names) THEN special
    ELSE FillAll(FillSubset(special, a, iterkeys(names[a]), 0, k), names, a + 1, k)

RECURSIVE SpecialPairs(_, _, _)
\* for s in special: for t in s[1:]: constraints.append(...): the pairs
\* (round r, position t) in the order of the appends
SpecialPairs(r, t, k) ==
    IF r > k - 2 THEN <<>>
    ELSE IF t > k - 1 THEN SpecialPairs(r + 1, r + 2, k)
    ELSE <<[r |-> r, t |-> t]>> \o SpecialPairs(r, t + 1, k)

\* constraints = [basic] and then the special inequalities; the basic
\* equality is written as the pair (-1, -1)
Constraints(k) == <<[r |-> -1, t |-> -1]>> \o SpecialPairs(0, 1, k)

\* numspecial = (k*(k-1)) >> 1; senses = 'E' + 'L'*numspecial
Senses(k) == <<"E">> \o [x \in 1..((k * (k - 1)) \div 2) |-> "L"]

\* A variant, not the program's: a removed ballot costs 1 whatever it ranks.
CostOne(subset, p, m) == IF subset # {} THEN m ELSE m - p

\* obj: 0 for P_S and 2 for M_S, but -1 for P_() and 1 for M_()
Cost(subset, p, m) == IF subset # {} THEN 2 * m ELSE m - p

RECURSIVE SetToSeq(_)
\* the members of a set as a list, in some order
SetToSeq(S) == IF S = {} THEN <<>>
               ELSE LET x == CHOOSE y \in S : TRUE IN <<x>> \o SetToSeq(S \ {x})

RECURSIVE Vectors(_, _)
\* the integer points x with 0 <= x[a] <= bound[a] that add up to total
Vectors(bound, total) ==
    IF bound = <<>> THEN (IF total = 0 THEN {<<>>} ELSE {})
    ELSE UNION {{<<v>> \o x : x \in Vectors(Tail(bound), total - v)} :
                   v \in 0..Min(Head(bound), total)}

\* distance_to(root, ranks, elim_order, timeout): [h, value, exc]; slow tells
\* whether the solver runs into its time limit
distance_to(H, root, ranks, elim_order, slow) ==
    LET k == Len(elim_order) IN
    IF k < 2 THEN [h |-> H, value |-> 0, exc |-> "", prob |-> <<>>]
    ELSE
    Let(deepcopy(H, root), LAMBDA cp :
    IF Len(elim_order) # num_children(cp.h, cp.r)
    THEN [h |-> cp.h, value |-> 0, exc |-> "AssertionError", prob |-> <<>>]
    ELSE
    Let(reduce(cp.h, cp.r, elim_order), LAMBDA H1 :
    Let(_tree_to_map(H1, cp.r), LAMBDA profile :
    \* the signatures that get variables P_S and M_S
    Let(SetToSeq({sub \in _powerset(k, ranks) : ~({k - 1, k - 2} \subseteq sub)}),
        LAMBDA names :
    Let([a \in DOMAIN names |->
            IF _ballot_to_name(elim_order, names[a]) \in DOMAIN profile
            THEN profile[_ballot_to_name(elim_order, names[a])] ELSE 0], LAMBDA ns :
    \* special[r][i-r]: the signatures that count for position i in round r
    Let(FillAll([r \in 0..(k - 2) |-> [i \in r..(k - 1) |-> {}]], names, 1, k),
        LAMBDA special :
    LET n == H1.nodes[cp.r].value
        vs == DOMAIN names
        \* ub.extend((n-ns, ns)) / ub.append(n); no M_S stands for M_S = 0
        ubP == [a \in vs |-> n - ns[a]]
        ubM == [a \in vs |-> ns[a]]
        \* the special inequalities on the new tallies; the basic equality
        \* sum P = sum M holds for every point enumerated
        feasible(p, m) ==
            LET y == [a \in vs |-> ns[a] + p[a] - m[a]]
            IN \A x \in 2..Len(Constraints(k)) :
                  LET c == Constraints(k)[x]
                  IN SumOver(y, special[c.r][c.r]) <= SumOver(y, special[c.r][c.t])
        prob == [names |-> names, special |-> special, constraints |-> Constraints(k),
                 senses |-> Senses(k)]
        objective(p, m) == SumOver([a \in vs |-> Cost(names[a], p[a], m[a])], vs)
    IN IF slow THEN [h |-> H1, value |-> -1, exc |-> "", prob |-> prob]
       ELSE
       Let(UNION {UNION {{objective(p, m) :
                             p \in {q \in Vectors(ubP, total) : feasible(q, m)}} :
                            m \in Vectors(ubM, total)} :
                     total \in 0..n},
           LAMBDA values : [h |-> H1, value |-> IF values = {} THEN -1 ELSE SetMin(values),
                            exc |-> "", prob |-> prob])))))))

(***************************************************************************)
(* irv.py: irv_margin, after its calls of irv and irv_ub.                  *)
(***************************************************************************)
RECURSIVE MaxEset(_, _, _, _, _, _)
\* for eset in esets: ... if lb > ub: max_eset = eset
MaxEset(H, root, esets, candidates, ubv, max_eset) ==
    IF esets = <<>> THEN max_eset
    ELSE LET eset == Head(esets) IN
         IF Cardinality(eset) <= Cardinality(max_eset)
         THEN MaxEset(H, root, Tail(esets), candidates, ubv, max_eset)
         ELSE IF RoundMargin(H, root, candidates \ eset, eset) > ubv
         THEN MaxEset(H, root, Tail(esets), candidates, ubv, eset)
         ELSE MaxEset(H, root, Tail(esets), candidates, ubv, max_eset)

RECURSIVE MustEliminate(_, _, _)
\* while True: eliminate the largest batch set whose margin exceeds ub
MustEliminate(H, root, ubv) ==
    Let(MaxEset(H, root, _elimination_set(H, root, SFRCV_RULES).all_sets, children(H, root),
                ubv, {}),
        LAMBDA max_eset :
           IF max_eset = {} THEN H
           ELSE MustEliminate(EliminateAll(H, root, iterkeys(max_eset)), root, ubv))

RECURSIVE Tertiary(_, _, _, _, _, _)
\* for i in range(1, k+1): if i >= len(elims): elims = elims.union(elim_order[j])
\* A negative j indexes elim_order from its end.
Tertiary(elim_order, k, i, j, elims, tertiary) ==
    IF i > k THEN [tertiary |-> tertiary, exc |-> ""]
    ELSE IF i >= Cardinality(elims)
    THEN LET at == IF j >= 0 THEN j + 1 ELSE Len(elim_order) + j + 1
         IN IF at \notin DOMAIN elim_order
            THEN [tertiary |-> tertiary, exc |-> "IndexError"]
            ELSE Tertiary(elim_order, k, i + 1, j - 1, elims \cup elim_order[at],
                          Append(tertiary, elims \cup elim_order[at]))
    ELSE Tertiary(elim_order, k, i + 1, j, elims, Append(tertiary, elims))

RECURSIVE ListLess(_, _)
\* a < b for two Python lists of numbers
ListLess(a, b) ==
    IF b = <<>> THEN FALSE
    ELSE IF a = <<>> THEN TRUE
    ELSE IF Head(a) # Head(b) THEN Head(a) < Head(b)
    ELSE ListLess(Tail(a), Tail(b))

\* a < b for two fringe entries (d, s, t, elim)
EntryLess(a, b) ==
    ListLess(<<a.d, a.s, a.t>> \o a.elim, <<b.d, b.s, b.t>> \o b.elim)

\* The clock of a call of irv_margin: timeout, the time budget left; elapsed,
\* the time found to have passed at each coming pop (none left: no time);
\* slow, whether the solver runs into its time limit at each coming call of
\* distance_to (none left: it does not); events, what the search has done.
NoTimeout == [timeout |-> 1, elapsed |-> <<>>, slow |-> <<>>, events |-> <<>>]

Event(clk, ev, d, n) ==
    [clk EXCEPT !.events = Append(@, [ev |-> ev, d |-> d, n |-> n, left |-> clk.timeout])]

RECURSIVE Expand(_, _, _, _, _, _, _, _, _)
\* A variant, not the program's: the result of distance_to is not compared
\* with -1 before it is compared with ub.
ExpandAnyCost(H, root, ranks, fringe, elim, cs, ubv, tertiary, clk) ==
    IF cs = <<>> THEN [h |-> H, fringe |-> fringe, exc |-> "", failed |-> FALSE, clk |-> clk]
    ELSE LET others == (children(H, root) \ Range(elim)) \ {Head(cs)}
             new_elim == <<Head(cs)>> \o elim
         IN
         Let(deepcopy(H, root), LAMBDA reduced :
         Let(distance_to(EliminateAll(reduced.h, reduced.r, iterkeys(others)), reduced.r,
                         ranks, new_elim, clk.slow # <<>> /\ Head(clk.slow)), LAMBDA dt :
         Let(Event([clk EXCEPT !.slow = IF @ = <<>> THEN @ ELSE Tail(@)],
                   "distance_to", dt.value, Len(new_elim)), LAMBDA clk1 :
            IF dt.exc # "" THEN [h |-> dt.h, fringe |-> fringe, exc |-> dt.exc,
                                 failed |-> FALSE, clk |-> clk]
            ELSE IF dt.value <= ubv
            THEN Expand(dt.h, root, ranks,
                        fringe \cup {[d |-> dt.value, s |-> -Len(new_elim),
                                      t |-> Cardinality(Range(new_elim)
                                                        \ tertiary[Len(new_elim)]),
                                      elim |-> new_elim]},
                        elim, Tail(cs), ubv, tertiary,
                        Event(clk1, "push", dt.value, Len(new_elim)))
            ELSE Expand(dt.h, root, ranks, fringe, elim, Tail(cs), ubv, tertiary, clk1))))

\* for c in prefixes: ... d = ilp.distance_to(reduced, ranks, new_elim, timeout)
Expand(H, root, ranks, fringe, elim, cs, ubv, tertiary, clk) ==
    IF cs = <<>> THEN [h |-> H, fringe |-> fringe, exc |-> "", failed |-> FALSE, clk |-> clk]
    ELSE LET c == Head(cs)
             others == (children(H, root) \ Range(elim)) \ {Head(cs)}
             new_elim == <<Head(cs)>> \o elim
         IN
         Let(deepcopy(H, root), LAMBDA reduced :
         Let(distance_to(EliminateAll(reduced.h, reduced.r, iterkeys(others)), reduced.r,
                         ranks, new_elim, clk.slow # <<>> /\ Head(clk.slow)), LAMBDA dt :
         Let(Event([clk EXCEPT !.slow = IF @ = <<>> THEN @ ELSE Tail(@)],
                   "distance_to", dt.value, Len(new_elim)), LAMBDA clk1 :
            IF dt.exc # "" THEN [h |-> dt.h, fringe |-> fringe, exc |-> dt.exc,
                                 failed |-> FALSE, clk |-> clk]
            ELSE IF dt.value = -1 THEN [h |-> dt.h, fringe |-> fringe, exc |-> "",
                                        failed |-> TRUE, clk |-> clk1]
            ELSE IF dt.value <= ubv
            THEN Expand(dt.h, root, ranks,
                        fringe \cup {[d |-> dt.value, s |-> -Len(new_elim),
                                      t |-> Cardinality(Range(new_elim)
                                                        \ tertiary[Len(new_elim)]),
                                      elim |-> new_elim]},
                        elim, Tail(cs), ubv, tertiary,
                        Event(clk1, "push", dt.value, Len(new_elim)))
            ELSE Expand(dt.h, root, ranks, fringe, elim, Tail(cs), ubv, tertiary, clk1))))

RECURSIVE Search(_, _, _, _, _, _, _, _)
\* while True: d, s, t, elim = heapq.heappop(fringe) ...
Search(H, root, ranks, fringe, k, ubv, tertiary, clk) ==
    IF fringe = {} THEN [h |-> H, value |-> 0, exc |-> "IndexError", clk |-> clk]
    ELSE Let(CHOOSE a \in fringe : \A b \in fringe \ {a} : EntryLess(a, b), LAMBDA e :
            IF Len(e.elim) = k
            THEN [h |-> H, value |-> e.d, exc |-> "",
                  clk |-> Event(clk, "pop", e.d, Len(e.elim))]
            ELSE
            \* timeout -= now - then
            Let(Event([clk EXCEPT !.timeout = IF clk.elapsed = <<>> THEN @
                                              ELSE @ - Head(clk.elapsed),
                                  !.elapsed = IF @ = <<>> THEN @ ELSE Tail(@)],
                      "pop", e.d, Len(e.elim)), LAMBDA clk1 :
            IF clk1.timeout <= 0 THEN [h |-> H, value |-> -1, exc |-> "", clk |-> clk1]
            ELSE Let(Expand(H, root, ranks, fringe \ {e}, e.elim,
                            iterkeys(children(H, root) \ Range(e.elim)), ubv, tertiary, clk1),
                     LAMBDA x :
                        IF x.exc # "" THEN [h |-> x.h, value |-> 0, exc |-> x.exc,
                                            clk |-> x.clk]
                        ELSE IF x.failed THEN [h |-> x.h, value |-> -1, exc |-> "",
                                               clk |-> x.clk]
                        ELSE Search(x.h, root, ranks, x.fringe, k, ubv, tertiary, x.clk))))

\* irv_margin from "root = election.profile.deepcopy()" on:
\* [h, value, exc, clk, root], root the copy the search works on
irv_margin(H, e, winner, elim_order, ubv, clk) ==
    Let(deepcopy(H, e.profile), LAMBDA cp :
    Let(MustEliminate(cp.h, cp.r, ubv), LAMBDA H1 :
    Let(Tertiary(elim_order, num_children(H1, cp.r), 1, Len(elim_order) - 1, {winner}, <<>>),
        LAMBDA tt :
           IF tt.exc # ""
           THEN [h |-> H1, value |-> 0, exc |-> tt.exc, clk |-> clk, root |-> cp.r]
           ELSE Let(Search(H1, cp.r, e.ranks,
                           {[d |-> 0, s |-> -1, t |-> 0, elim |-> <<c>>] :
                               c \in children(H1, cp.r) \ {winner}},
                           num_children(H1, cp.r), ubv, tt.tertiary, clk),
                    LAMBDA x : [h |-> x.h, value |-> x.value, exc |-> x.exc,
                                clk |-> x.clk, root |-> cp.r]))))

(***************************************************************************)
(* condorcet.py.  The matrix is a list of rows, m[i][j] the entry of row   *)
(* i - 1 and column j - 1 of the numpy array (int32; the entries of the    *)
(* model stay far inside that range).                                      *)
(***************************************************************************)
RECURSIVE _add_child_to_matrix(_, _, _, _, _)
RECURSIVE AddChildren(_, _, _, _, _)
\* for c in cs.intersection(n.children()):
\*     _add_child_to_matrix(n.get_child(c), c, cs, m)
AddChildren(H, n, todo, cs, m) ==
    IF todo = {} THEN m
    ELSE Let(_add_child_to_matrix(H, _children(H, n)[SetMin(todo)], SetMin(todo), cs, m),
             LAMBDA m1 : AddChildren(H, n, todo \ {SetMin(todo)}, cs, m1))

\* A variant, not the program's: the children of n are not visited.
AddChildOnly(H, n, who, cs, m) ==
    [m EXCEPT ![who] = [j \in DOMAIN @ |->
                           IF j \in cs \ {who} THEN @[j] + H.nodes[n].value ELSE @[j]]]

\* cs without who; m[who-1, temp] += n.value; then the children of n in cs
_add_child_to_matrix(H, n, who, cs, m) ==
    AddChildren(H, n, (cs \ {who}) \cap children(H, n), cs \ {who},
                [m EXCEPT ![who] = [j \in DOMAIN @ |->
                                       IF j \in cs \ {who} THEN @[j] + H.nodes[n].value
                                 ELSE @[j]]])

\* build_condorcet(election): the n x n matrix of zeros, then every child of
\* the root added with cs = the children of the root
build_condorcet(H, e) ==
    AddChildren(H, e.profile, children(H, e.profile), children(H, e.profile),
                [i \in 1..num_children(H, e.profile) |->
                    [j \in 1..num_children(H, e.profile) |-> 0]])

\* A variant, not the program's: a tie counts as a win.
SignOrTie(x) == IF x >= 0 THEN 1 ELSE -1

\* numpy.sign
sign(x) == IF x > 0 THEN 1 ELSE IF x < 0 THEN -1 ELSE 0

\* d = m - m.T; winner = sum(numpy.sign(d).T) == len(m) - 1: the 1-based
\* index of the first True, or None
condorcet_winner(m) ==
    LET winner == {i \in DOMAIN m :
                      SumOver([j \in DOMAIN m |-> sign(m[i][j] - m[j][i])], DOMAIN m)
                          = Len(m) - 1}
    IN IF winner # {} THEN SetMin(winner) ELSE None

\* condorcet_lb(m, winner): row = d[winner-1] with its own entry replaced by
\* max(row); min(row)
condorcet_lb(m, winner) ==
    LET w == IF winner = None THEN condorcet_winner(m) ELSE winner
        row == [j \in DOMAIN m |-> m[w][j] - m[j][w]]
        max == CHOOSE x \in Range(row) : \A y \in Range(row) : y <= x
    IN IF w = None THEN 0
       ELSE SetMin(Range([row EXCEPT ![w] = max]))

(***************************************************************************)
(* Inputs: the .blt files of the model, written one ballot line at a time. *)
(* Lines are kept in ascending LineCode order: the order of the lines      *)
(* decides only which heap cell a trie node gets.                          *)
(***************************************************************************)
Tokens(K) == (1..K) \cup {Skip, Equal}

\* every token sequence of at most MaxTokens tokens
BallotLines(K) == UNION {[1..n -> Tokens(K)] : n \in 0..MaxTokens}

\* the lines that rank distinct candidates and nothing else
Rankings(K) == {l \in UNION {[1..n -> 1..K] : n \in 0..MaxTokens} :
                   \A a, b \in DOMAIN l : a # b => l[a] # l[b]}

\* the lines that rank one candidate
Singles(K) == {<<c>> : c \in 1..K}

\* the .blt file of K candidates named a, b, ... with one seat, an empty
\* description and the given ballot lines
BltFile(K, lines) ==
    [K |-> K, seats |-> 1, lines |-> lines,
     names |-> [c \in 1..K |-> <<"\"", <<"a", "b", "c", "d", "e">>[c], "\"", "\n">>],
     description |-> <<"\"", "\"", "\n">>]

\* 10 ballots for each of 1, 2, 3; 35 for 4 then 1; 35 for 5 then 2
S2File ==
    BltFile(5, [i \in 1..100 |-> IF i <= 10 THEN <<1>>
                                 ELSE IF i <= 20 THEN <<2>>
                                 ELSE IF i <= 30 THEN <<3>>
                                 ELSE IF i <= 65 THEN <<4, 1>>
                                 ELSE <<5, 2>>])

\* 60 ballots 1, 2, 3; 30 ballots 2, 1, 3; 10 ballots 3, 2, 1
S1File ==
    BltFile(3, [i \in 1..100 |-> IF i <= 60 THEN <<1, 2, 3>>
                                 ELSE IF i <= 90 THEN <<2, 1, 3>>
                                 ELSE <<3, 2, 1>>])

\* the cycle: 35 ballots 1, 2, 3; 33 ballots 2, 3, 1; 32 ballots 3, 1, 2
S3File ==
    BltFile(3, [i \in 1..100 |-> IF i <= 35 THEN <<1, 2, 3>>
                                 ELSE IF i <= 68 THEN <<2, 3, 1>>
                                 ELSE <<3, 1, 2>>])

\* the rankings, and every token sequence of at most MaxDirty tokens
TrieLines(K) == Rankings(K) \cup {l \in BallotLines(K) : Len(l) <= MaxDirty}

RECURSIVE LineCode(_, _)
LineCode(l, K) == IF l = <<>> THEN 0
                  ELSE (l[Len(l)] + 2) + (K + 3) * LineCode(SubSeq(l, 1, Len(l) - 1), K)

NoElection == [names |-> <<>>, profile |-> None, ranks |-> 0, seats |-> 0,
               description |-> <<>>]

NoCall == [op |-> "", exc |-> "", value |-> 0, rules |-> 0, winner |-> <<>>,
           elimination |-> <<>>, trace |-> <<>>, r |-> 0, target |-> 0, counts |-> <<>>,
           m |-> <<>>, path |-> <<>>, e |-> <<>>, events |-> <<>>, prob |-> <<>>,
           prev |-> <<>>]

NoUb == [rules |-> 0, winner |-> 0, elim_order |-> <<>>, js |-> <<>>, j |-> 0,
         new_root |-> 0, w |-> <<>>, mod_elim_order |-> <<>>, error |-> <<>>,
         phase |-> "", shifts |-> 0, pre |-> <<>>]

\* the directory of the .blt file: t1 the modification time of the .blt,
\* pickle the cached file (<<>> while there is none) and t2 its modification
\* time, now the time by which files are stamped
NoDisk == [t1 |-> 0, pickle |-> <<>>, t2 |-> 0, now |-> 0]

InitK(Ks) ==
    /\ heap = EmptyHeap
    /\ \E K \in Ks : file = BltFile(K, <<>>)
    /\ election = NoElection
    /\ pc = "unread"
    /\ n2 = None
    /\ ret = NoCall
    /\ ops = 0
    /\ wl = {}
    /\ ub = NoUb
    /\ log = <<>>
    /\ disk = NoDisk

\* A ballot line is written to the .blt file.
AddLine(Lines, max) ==
    /\ pc = "unread"
    /\ Len(file.lines) < max
    /\ \E l \in Lines :
          /\ file.lines # <<>> => LineCode(file.lines[Len(file.lines)], file.K) <= LineCode(l, file.K)
          /\ file' = [file EXCEPT !.lines = Append(@, l)]
    /\ UNCHANGED <<heap, election, pc, n2, ret, ops, wl, ub, log, disk>>

\* The header, the names and the description of the .blt file are written.
Header ==
    /\ pc = "unread"
    /\ file = BltFile(file.K, file.lines)
    /\ \E h \in {[seats |-> 2, tail |-> <<" ", "\n">>, description |-> <<"\"", "x", "\"">>],
                  [seats |-> 2, tail |-> <<"\n">>, description |-> <<>>]} :
          file' = [file EXCEPT !.seats = h.seats,
                               !.names = [c \in 1..file.K |-> SubSeq(@[c], 1, 3) \o h.tail],
                               !.description = h.description]
    /\ UNCHANGED <<heap, election, pc, n2, ret, ops, wl, ub, log, disk>>

\* _read_blt(path)
ReadBlt ==
    /\ pc = "unread"
    /\ \E e \in {_read_blt(heap, file)} :
          /\ heap' = e.h
          /\ election' = e.r
    /\ pc' = "ready"
    /\ UNCHANGED <<file, n2, ret, ops, wl, ub, log, disk>>

(***************************************************************************)
(* The public algorithms of irv.py, called on the parsed election.         *)
(***************************************************************************)
\* irv(election, rules)
Irv ==
    /\ pc = "ready"
    /\ \E rules \in Rules :
          \E x \in {irv(heap, election, rules)} :
             /\ heap' = x.h
             /\ ret' = [NoCall EXCEPT !.op = "irv", !.exc = x.exc, !.rules = rules,
                                      !.winner = x.winner, !.elimination = x.elimination,
                                      !.trace = x.trace, !.r = x.r, !.counts = x.counts]
    /\ pc' = "done"
    /\ UNCHANGED <<file, election, n2, ops, wl, ub, log, disk>>

\* irv_round(election.profile, rounds, rules)
IrvRound ==
    /\ pc = "ready"
    /\ \E rules \in Rules, rounds \in 0..file.K :
          \E x \in {irv_round(heap, election.profile, rounds, rules)} :
             /\ heap' = x.h
             /\ ret' = [NoCall EXCEPT !.op = "irv_round", !.exc = x.exc, !.rules = rules,
                                      !.winner = x.winner, !.elimination = x.elimination,
                                      !.trace = x.trace, !.r = x.r, !.target = x.root,
                                      !.value = rounds, !.counts = x.counts]
    /\ pc' = "done"
    /\ UNCHANGED <<file, election, n2, ops, wl, ub, log, disk>>

\* _, _, _, root = irv_round(profile, a, rules) returned without a winner, and
\* the caller goes on with irv_round(root, b, rules), as irv_simple_lb and
\* irv_ub do; prev keeps what the first call returned.
IrvRoundAgain ==
    /\ pc = "done"
    /\ ret.op = "irv_round"
    /\ ret.exc = ""
    /\ ret.winner = <<>>
    /\ \E rounds \in 0..file.K :
          \E x \in {irv_round(heap, ret.target, rounds, ret.rules)} :
             /\ heap' = x.h
             /\ ret' = [NoCall EXCEPT !.op = "irv_round_again", !.exc = x.exc,
                                      !.rules = ret.rules,
                                      !.winner = x.winner, !.elimination = x.elimination,
                                      !.trace = x.trace, !.r = x.r, !.target = x.root,
                                      !.value = rounds, !.counts = x.counts,
                                      !.prev = ret]
    /\ UNCHANGED <<file, election, pc, n2, ops, wl, ub, log, disk>>

\* irv_simple_lb(election, rules)
IrvSimpleLb ==
    /\ pc = "ready"
    /\ \E rules \in Rules :
          \E x \in {irv_simple_lb(heap, election, rules)} :
             /\ heap' = x.h
             /\ ret' = [NoCall EXCEPT !.op = "irv_simple_lb", !.exc = x.exc,
                                      !.rules = rules, !.value = x.value]
    /\ pc' = "done"
    /\ UNCHANGED <<file, election, n2, ops, wl, ub, log, disk>>

\* distance_to(election.profile, election.ranks, elim_order, timeout) for an
\* order of all the candidates
DistanceTo ==
    /\ pc = "ready"
    /\ \E elim_order \in Perms(children(heap, election.profile)) :
          \E x \in {distance_to(heap, election.profile, election.ranks, elim_order, FALSE)} :
             /\ heap' = x.h
             /\ ret' = [NoCall EXCEPT !.op = "distance_to", !.exc = x.exc,
                                      !.value = x.value, !.elimination = elim_order,
                                      !.prob = x.prob]
    /\ pc' = "done"
    /\ UNCHANGED <<file, election, n2, ops, wl, ub, log, disk>>

\* _elimination_set(election.profile, rules, all_sets)
EliminationSet ==
    /\ pc = "ready"
    /\ \E rules \in Rules :
          \E x \in {_elimination_set(heap, election.profile, rules)} :
             ret' = [NoCall EXCEPT !.op = "_elimination_set", !.rules = rules,
                                   !.elimination = <<x.set>> \o x.all_sets]
    /\ pc' = "done"
    /\ UNCHANGED <<heap, file, election, n2, ops, wl, ub, log, disk>>

(***************************************************************************)
(* irv_lb, one action per pass of its while loop.  wl is the heap queue of *)
(* (m, s, root) entries (m stored un-negated).                             *)
(***************************************************************************)
IrvLbCall ==
    /\ pc = "ready"
    /\ wl' = {[m |-> maxint, s |-> <<>>, root |-> election.profile]}
    /\ pc' = "irv_lb"
    /\ ret' = [NoCall EXCEPT !.op = "irv_lb"]
    /\ UNCHANGED <<heap, file, election, n2, ops, ub, log, disk>>

RECURSIVE PushAll(_, _, _, _)
\* for elim_set in elim_sets: ... heapq.heappush(wl, (-min(m, m2), s2, new_root))
PushAll(st, e, elim_sets, i) ==
    IF i > Len(elim_sets) THEN st
    ELSE LET elim_set == elim_sets[i] IN
         Let(deepcopy(st.h, e.root), LAMBDA cp :
         Let(children(cp.h, cp.r) \ elim_set, LAMBDA continuing :
         Let(Touch(Touch(cp.h, cp.r, iterkeys(continuing)), cp.r, iterkeys(elim_set)),
             LAMBDA H1 :
                PushAll([h |-> EliminateAll(H1, cp.r, iterkeys(elim_set)),
                         wl |-> st.wl \cup
                                {[m |-> Min(e.m, RoundMargin(H1, cp.r, continuing, elim_set)),
                                  s |-> Append(e.s, elim_set), root |-> cp.r]}],
                        e, elim_sets, i + 1))))

\* heapq.heappop(wl) on an empty queue
IrvLbEmpty ==
    /\ pc = "irv_lb"
    /\ wl = {}
    /\ ret' = [ret EXCEPT !.exc = "IndexError"]
    /\ pc' = "done"
    /\ UNCHANGED <<heap, file, election, n2, ops, wl, ub, log, disk>>

\* One pass: pop a best entry; return its margin or push its successors.
\* Entries of equal margin are ordered by their lists of sets and then by the
\* Node objects themselves, an order the program does not control: any of
\* them may be popped.
IrvLbPop ==
    /\ pc = "irv_lb"
    /\ \E e \in wl :
          /\ \A o \in wl : o.m <= e.m
          /\ IF num_children(heap, e.root) = 1
             THEN /\ ret' = [ret EXCEPT !.value = e.m, !.elimination = e.s]
                  /\ pc' = "done"
                  /\ wl' = wl \ {e}
                  /\ heap' = heap
             ELSE \E st \in {PushAll([h |-> heap, wl |-> wl \ {e}], e,
                                     _elimination_set(heap, e.root, SFRCV_RULES).all_sets,
                                     1)} :
                     /\ heap' = st.h
                     /\ wl' = st.wl
                     /\ UNCHANGED <<ret, pc>>
    /\ UNCHANGED <<file, election, n2, ops, ub, log, disk>>

(***************************************************************************)
(* irv_ub, one action per pass of its loops.                               *)
(***************************************************************************)
\* irv_ub(election, rules): winner and elim_order are computed by irv under
\* the same rules when they are not passed.
IrvUbCall(rs) ==
    /\ pc = "ready"
    /\ \E rules \in rs :
          \E x \in {irv(heap, election, rules)} :
             /\ heap' = x.h
             /\ ret' = [NoCall EXCEPT !.op = "irv_ub", !.rules = rules, !.exc = x.exc]
             /\ IF x.exc # ""
                THEN /\ pc' = "done"
                     /\ ub' = ub
                ELSE /\ pc' = "irv_ub"
                     /\ ub' = [NoUb EXCEPT !.rules = rules, !.winner = x.winner[1],
                                           !.elim_order = x.elimination,
                                           !.js = iterchildren(heap, election.profile),
                                           !.phase = "for"]
    /\ UNCHANGED <<file, election, n2, ops, wl, log, disk>>

\* for j in candidates: ... ; return 2*min(error.values())
IrvUbFor ==
    /\ pc = "irv_ub"
    /\ ub.phase = "for"
    /\ IF ub.js = <<>>
       THEN /\ IF DOMAIN ub.error = {}
               THEN ret' = [ret EXCEPT !.exc = "ValueError"]
               ELSE ret' = [ret EXCEPT !.value =
                               2 * SetMin({ub.error[j] : j \in DOMAIN ub.error})]
            /\ pc' = IF ret.op = "irv_margin" /\ DOMAIN ub.error # {}
                     THEN "irv_margin" ELSE "done"
            /\ UNCHANGED <<heap, ub>>
       ELSE IF Head(ub.js) = ub.winner
       THEN /\ ub' = [ub EXCEPT !.js = Tail(@)]
            /\ UNCHANGED <<heap, ret, pc>>
       ELSE \E cp \in {deepcopy(heap, election.profile)} :
               /\ heap' = cp.h
               /\ ub' = [ub EXCEPT !.js = Tail(@), !.j = Head(ub.js), !.new_root = cp.r,
                                   !.w = <<ub.winner>>,
                                   !.mod_elim_order = ub.elim_order,
                                   !.error = (Head(ub.js) :> 0) @@ @, !.phase = "while",
                                   !.shifts = 0]
               /\ UNCHANGED <<ret, pc>>
    /\ UNCHANGED <<file, election, n2, ops, wl, log, disk>>

RECURSIVE DiffScan(_, _, _, _, _, _)
\* for c in new_root.children() - mod_elim_order[l]: if d < diff: k = c; diff = d
DiffScan(H, root, cs, votes_for_j, k, diff) ==
    IF cs = <<>> THEN [k |-> k, diff |-> diff]
    ELSE Let(child_value(H, root, Head(cs)) - votes_for_j, LAMBDA d :
             IF d < diff THEN DiffScan(H, root, Tail(cs), votes_for_j, Head(cs), d)
             ELSE DiffScan(H, root, Tail(cs), votes_for_j, k, diff))

\* The body of "while w == winner" on the loop state u: the state after it,
\* with exc the exception that ended it, if any.
ShiftBody(H, u) ==
    LET j == u.j
        mod == u.mod_elim_order
        found == {i \in DOMAIN u.mod_elim_order : u.j \in u.mod_elim_order[i]}
    IN IF found = {} THEN [h |-> H, u |-> u, exc |-> "IndexError", changed |-> 0]
       ELSE
       LET l == SetMin(found) - 1 IN
       Let(IF l > 0 THEN irv_round(H, u.new_root, l, u.rules)
           ELSE [h |-> H, root |-> u.new_root, exc |-> ""], LAMBDA rd :
       IF rd.exc # "" THEN [h |-> rd.h, u |-> u, exc |-> rd.exc, changed |-> 0]
       ELSE
       Let(get_child(rd.h, rd.root, j), LAMBDA gj :
       Let(children(gj.h, rd.root) \ mod[l + 1], LAMBDA outside :
       Let(Touch(gj.h, rd.root, iterkeys(outside)), LAMBDA H1 :
       Let(DiffScan(H1, rd.root, iterkeys(outside), gj.h.nodes[gj.r].value, 0, maxint),
           LAMBDA ds :
       Let(Touch(H1, rd.root, iterkeys(mod[l + 1])), LAMBDA H2 :
       Let(SumOver([c \in mod[l + 1] |-> child_value(H2, rd.root, c)], mod[l + 1]),
           LAMBDA s :
       Let(child_value(H2, rd.root, ds.k) - s
              - (IF s > gj.h.nodes[gj.r].value THEN 1 ELSE 0), LAMBDA m :
       \* what holds of the arguments where _modify_margin is called
       Let([l |-> l, m |-> m, k |-> ds.k,
            j_child |-> has_child(rd.h, rd.root, j),
            k_child |-> has_child(rd.h, rd.root, ds.k),
            k_outside |-> ds.k \notin mod[l + 1],
            k_in_order |-> ds.k \in (UNION Range(SubSeq(mod, l + 1, Len(mod)))) \cup {u.w[1]}],
           LAMBDA pre :
       IF ds.diff >= maxint \/ m < 0
       THEN [h |-> H2, u |-> [u EXCEPT !.new_root = rd.root, !.pre = pre],
             exc |-> "AssertionError", changed |-> 0]
       ELSE
       Let(_modify_margin(H2, rd.root, m, j, ds.k, SubSeq(mod, l + 1, Len(mod)), u.w[1]),
           LAMBDA mm :
       IF mm.exc # ""
       THEN [h |-> mm.h,
             u |-> [u EXCEPT !.new_root = rd.root, !.error[j] = @ + mm.changed,
                             !.pre = pre],
             exc |-> mm.exc, changed |-> mm.changed]
       ELSE
       Let(irv_round(mm.h, rd.root, num_children(mm.h, rd.root), u.rules), LAMBDA fin :
           [h |-> fin.h,
            u |-> [u EXCEPT !.new_root = rd.root, !.error[j] = @ + mm.changed,
                            !.w = fin.winner, !.mod_elim_order = fin.elimination,
                            !.shifts = @ + 1, !.pre = pre],
            exc |-> fin.exc, changed |-> mm.changed])))))))))))

\* The loop state that decides every later pass of the while loop.
LoopState(H, u) == <<Tree(H, u.new_root), u.w, u.mod_elim_order, u.j>>

\* One pass of "while w == winner".  A pass that leaves the loop state as it
\* found it is repeated forever: the call never returns (pc = "spins").
IrvUbWhile ==
    /\ pc = "irv_ub"
    /\ ub.phase = "while"
    /\ IF ub.w # <<ub.winner>>
       THEN /\ ub' = [ub EXCEPT !.phase = "for"]
            /\ UNCHANGED <<heap, ret, pc>>
       ELSE \E b \in {ShiftBody(heap, ub)} :
               /\ heap' = b.h
               /\ ub' = b.u
               /\ IF b.exc # ""
                  THEN /\ ret' = [ret EXCEPT !.exc = b.exc]
                       /\ pc' = "done"
                  ELSE IF LoopState(b.h, b.u) = LoopState(heap, ub)
                  THEN /\ pc' = "spins"
                       /\ ret' = ret
                  ELSE UNCHANGED <<ret, pc>>
    /\ UNCHANGED <<file, election, n2, ops, wl, log, disk>>

(***************************************************************************)
(* irv_margin: irv under the base rules, then the passes of irv_ub (called *)
(* with that winner and order, under its default rules), then the search.  *)
(***************************************************************************)
IrvMarginCall ==
    /\ pc = "ready"
    /\ \E x \in {irv(heap, election, BASE_IRV_RULES)} :
          /\ heap' = x.h
          /\ ret' = [NoCall EXCEPT !.op = "irv_margin", !.exc = x.exc]
          /\ IF x.exc # ""
             THEN /\ pc' = "done"
                  /\ ub' = ub
             ELSE /\ pc' = "irv_ub"
                  /\ ub' = [NoUb EXCEPT !.rules = SFRCV_RULES, !.winner = x.winner[1],
                                        !.elim_order = x.elimination,
                                        !.js = iterchildren(heap, election.profile),
                                        !.phase = "for"]
    /\ UNCHANGED <<file, election, n2, ops, wl, log, disk>>

\* from "root = election.profile.deepcopy()" to the return, under a clock of
\* Clks; ret.value holds ub
IrvMarginSearch(Clks) ==
    /\ pc = "irv_margin"
    /\ \E clk \in Clks :
       \E x \in {irv_margin(heap, election, ub.winner, ub.elim_order, ret.value, clk)} :
          /\ heap' = x.h
          /\ ret' = [ret EXCEPT !.value = x.value, !.exc = x.exc, !.r = ret.value,
                                !.events = x.clk.events, !.target = x.root]
    /\ pc' = "done"
    /\ UNCHANGED <<file, election, n2, ops, wl, ub, log, disk>>

(***************************************************************************)
(* A caller that asks for the three bounds of one election in turn.        *)
(***************************************************************************)
\* the call has returned or raised: its outcome is kept and the next is made
NextCall ==
    /\ pc = "done"
    /\ log' = Append(log, [op |-> ret.op, exc |-> ret.exc, value |-> ret.value])
    /\ pc' = "ready"
    /\ ret' = NoCall
    /\ ub' = NoUb
    /\ wl' = {}
    /\ UNCHANGED <<heap, file, election, n2, ops, disk>>

LbFirst == Len(log) = 0 /\ IrvLbCall

UbSecond == Len(log) = 1 /\ IrvUbCall({SFRCV_RULES})

MarginThird == Len(log) = 2 /\ IrvMarginCall

(***************************************************************************)
(* The trie operations of node.py and _modify_margin, applied to a tree:   *)
(* the parsed profile, or its deep copy n2.                                *)
(***************************************************************************)
Roots == {election.profile} \cup (IF n2 = None THEN {} ELSE {n2})

\* n2 = n.deepcopy()
Deepcopy ==
    /\ pc = "ready"
    /\ n2 = None
    /\ \E c \in {deepcopy(heap, election.profile)} :
          /\ heap' = c.h
          /\ n2' = c.r
    /\ ret' = [NoCall EXCEPT !.op = "deepcopy"]
    /\ UNCHANGED <<file, election, pc, ops, wl, ub, log, disk>>

\* root.eliminate(c)
Eliminate ==
    /\ pc = "ready"
    /\ ops < MaxOps
    /\ \E t \in Roots, c \in 1..file.K :
          /\ heap' = eliminate(heap, t, c)
          /\ ret' = [NoCall EXCEPT !.op = "eliminate", !.target = t, !.value = c]
    /\ ops' = ops + 1
    /\ UNCHANGED <<file, election, pc, n2, wl, ub, log, disk>>

\* root.reduce(elim_order), for an order that passes the length assertion
Reduce ==
    /\ pc = "ready"
    /\ ops < MaxOps
    /\ \E t \in Roots :
          \E elim_order \in Perms(children(heap, t)) :
             /\ heap' = reduce(heap, t, elim_order)
             /\ ret' = [NoCall EXCEPT !.op = "reduce", !.target = t,
                                      !.elimination = elim_order]
    /\ ops' = ops + 1
    /\ UNCHANGED <<file, election, pc, n2, wl, ub, log, disk>>

\* _modify_margin(root, m, j, k, elim_order, w) as irv_ub calls it: elim_order
\* and w are an elimination order and the winner of the tree, j is one of
\* the first set of the order and k a candidate outside that set.
ModifyMargin ==
    /\ pc = "ready"
    /\ ops < MaxOps
    /\ \E t \in Roots, rules \in Rules, m \in 0..MaxMargin :
          \E x \in {irv_round(heap, t, num_children(heap, t), rules)} :
             /\ x.exc = ""
             /\ x.winner # <<>>
             /\ \E j \in x.elimination[1], k \in children(heap, t) \ x.elimination[1] :
                   \E mm \in {_modify_margin(heap, t, m, j, k, x.elimination, x.winner[1])} :
                      /\ heap' = mm.h
                      /\ ret' = [NoCall EXCEPT !.op = "_modify_margin", !.target = t,
                                               !.exc = mm.exc, !.value = mm.changed,
                                               !.r = m, !.winner = <<j, k>>]
    /\ ops' = ops + 1
    /\ UNCHANGED <<file, election, pc, n2, wl, ub, log, disk>>

\* node.get_child(c) on any node of a tree
GetChild ==
    /\ pc = "ready"
    /\ ops < MaxOps
    /\ \E t \in Roots :
          \E node \in NodesOf(heap, t), c \in 1..file.K :
             /\ heap' = get_child(heap, node, c).h
             /\ ret' = [NoCall EXCEPT !.op = "get_child", !.target = t]
    /\ ops' = ops + 1
    /\ UNCHANGED <<file, election, pc, n2, wl, ub, log, disk>>

\* node.value += 1 on any node of a tree
ChangeValue ==
    /\ pc = "ready"
    /\ ops < MaxOps
    /\ \E t \in Roots :
          \E node \in NodesOf(heap, t) :
             /\ heap' = SetValue(heap, node, heap.nodes[node].value + 1)
             /\ ret' = [NoCall EXCEPT !.op = "value", !.target = t]
    /\ ops' = ops + 1
    /\ UNCHANGED <<file, election, pc, n2, wl, ub, log, disk>>

\* node.delete_child(c) on any node of a tree that has the child
DeleteChild ==
    /\ pc = "ready"
    /\ ops < MaxOps
    /\ \E t \in Roots :
          \E node \in NodesOf(heap, t) :
             \E c \in children(heap, node) :
                /\ heap' = delete_child(heap, node, c)
                /\ ret' = [NoCall EXCEPT !.op = "delete_child", !.target = t]
    /\ ops' = ops + 1
    /\ UNCHANGED <<file, election, pc, n2, wl, ub, log, disk>>

\* the first trie operation on the parsed profile is a reduce
ReduceFirst == ops = 0 /\ Reduce

\* root.reduce(elim_order) once more, with the order of the call before
ReduceAgain ==
    /\ pc = "ready"
    /\ ret.op = "reduce"
    /\ heap' = reduce(heap, ret.target, ret.elimination)
    /\ ret' = [ret EXCEPT !.op = "reduce_again"]
    /\ ops' = ops + 1
    /\ UNCHANGED <<file, election, pc, n2, wl, ub, log, disk>>

(***************************************************************************)
(* condorcet.py on the parsed election.                                    *)
(***************************************************************************)
\* m = build_condorcet(election)
BuildCondorcet ==
    /\ pc = "ready"
    /\ ret.op = ""
    /\ ret' = [NoCall EXCEPT !.op = "build_condorcet", !.m = build_condorcet(heap, election)]
    /\ UNCHANGED <<heap, file, election, pc, n2, ops, wl, ub, log, disk>>

\* condorcet_winner(m)
CondorcetWinner ==
    /\ pc = "ready"
    /\ ret.op = "build_condorcet"
    /\ ret' = [ret EXCEPT !.op = "condorcet_winner", !.value = condorcet_winner(ret.m)]
    /\ UNCHANGED <<heap, file, election, pc, n2, ops, wl, ub, log, disk>>

\* condorcet_lb(m, winner), winner None or a candidate; target records the
\* argument
CondorcetLb ==
    /\ pc = "ready"
    /\ ret.op = "build_condorcet"
    /\ \E winner \in {None} \cup DOMAIN ret.m :
          ret' = [ret EXCEPT !.op = "condorcet_lb", !.target = winner,
                            !.value = condorcet_lb(ret.m, winner)]
    /\ UNCHANGED <<heap, file, election, pc, n2, ops, wl, ub, log, disk>>

(***************************************************************************)
(* blt.py: an election written to a path and read again.                   *)
(***************************************************************************)
\* write_blt(path, election)
WriteBlt ==
    /\ pc = "ready"
    /\ ret.op = ""
    /\ ret' = [NoCall EXCEPT !.op = "write_blt", !.path = write_blt(heap, election)]
    /\ UNCHANGED <<heap, file, election, pc, n2, ops, wl, ub, log, disk>>

\* _read_blt(path) of the path written
ReadWritten ==
    /\ pc = "ready"
    /\ ret.op = "write_blt"
    /\ \E x \in {_read_blt(heap, ret.path)} :
          /\ heap' = x.h
          /\ ret' = [ret EXCEPT !.op = "_read_blt", !.e = x.r]
    /\ UNCHANGED <<file, election, pc, n2, ops, wl, ub, log, disk>>

(***************************************************************************)
(* blt.py: read_blt and its cache.  The pickle holds the election by value: *)
(* its fields and the tree of its profile.                                 *)
(***************************************************************************)
\* Election.VERSION
VERSION == 1

\* cPickle.dump(election, f, -1): what the file holds
dump(H, e) ==
    [names |-> e.names, ranks |-> e.ranks, seats |-> e.seats,
     description |-> e.description, version |-> VERSION, profile |-> Tree(H, e.profile)]

RECURSIVE LoadChildren(_, _, _, _)
\* the nodes below n are allocated as the pickle describes them
LoadChildren(H, n, kids, cs) ==
    IF cs = <<>> THEN H
    ELSE Let(get_child(H, n, Head(cs)), LAMBDA g :
             LoadChildren(LoadChildren(SetValue(g.h, g.r, kids[Head(cs)].value), g.r,
                                       kids[Head(cs)].kids,
                                       iterkeys(DOMAIN kids[Head(cs)].kids)),
                          n, kids, Tail(cs)))

\* cPickle.load(f): a new election object with new nodes; [h, r]
load(H, p) ==
    Let(Node(H, p.profile.value, None), LAMBDA n :
        [h |-> LoadChildren(n.h, n.r, p.profile.kids, iterkeys(DOMAIN p.profile.kids)),
         r |-> [names |-> p.names, profile |-> n.r, ranks |-> p.ranks, seats |-> p.seats,
                description |-> p.description],
         version |-> p.version])

\* if t2 >= t1
Fresh(t2, t1) == t2 >= t1

\* read_blt(path): [h, r, disk, cached]; cached tells whether the election
\* returned is the one loaded from the pickle
read_blt(H, f, d) ==
    LET t1 == d.t1
        t2 == IF d.pickle = <<>> THEN -1 ELSE d.t2
    IN Let(IF Fresh(t2, t1) THEN load(H, d.pickle[1])
           ELSE [h |-> H, r |-> NoElection, version |-> None], LAMBDA ld :
           IF Fresh(t2, t1) /\ ld.version = VERSION
           THEN [h |-> ld.h, r |-> ld.r, disk |-> d, cached |-> TRUE]
           ELSE Let(_read_blt(ld.h, f), LAMBDA e :
                    [h |-> e.h, r |-> e.r,
                     disk |-> [d EXCEPT !.pickle = <<dump(e.h, e.r)>>, !.t2 = d.now],
                     cached |-> FALSE]))

\* read_blt(path), at any time
ReadBltCached ==
    /\ pc \in {"unread", "ready"}
    /\ ops < MaxOps
    /\ \E x \in {read_blt(heap, file, disk)} :
          /\ heap' = x.h
          /\ election' = x.r
          /\ disk' = x.disk
          /\ ret' = [NoCall EXCEPT !.op = "read_blt", !.value = IF x.cached THEN 1 ELSE 0]
    /\ pc' = "ready"
    /\ ops' = ops + 1
    /\ UNCHANGED <<file, n2, wl, ub, log>>

\* The .blt file is written again, with one more ballot line; its
\* modification time becomes the current time.
Rewrite ==
    /\ Len(file.lines) < MaxLinesCache
    /\ \E l \in Rankings(file.K) : file' = [file EXCEPT !.lines = Append(@, l)]
    /\ disk' = [disk EXCEPT !.t1 = disk.now]
    /\ ret' = NoCall
    /\ UNCHANGED <<heap, election, pc, n2, ops, wl, ub, log>>

\* Time passes: files written from now on get a later modification time.
Tick ==
    /\ disk.now < MaxTime
    /\ disk' = [disk EXCEPT !.now = @ + 1]
    /\ UNCHANGED <<heap, file, election, pc, n2, ret, ops, wl, ub, log>>

(***************************************************************************)
(* The specifications.                                                     *)
(***************************************************************************)
Init == InitK(1..MaxCand)

\* Spec: the algorithms of irv.py on every parsed election.
Next ==
    \/ AddLine(Rankings(file.K), MaxLines)
    \/ ReadBlt
    \/ Irv
    \/ IrvRound
    \/ IrvSimpleLb
    \/ IrvLbCall
    \/ IrvLbEmpty
    \/ IrvLbPop
    \/ IrvUbCall(Rules)
    \/ IrvUbFor
    \/ IrvUbWhile
    \/ IrvMarginCall
    \/ IrvMarginSearch({NoTimeout})
    \/ DistanceTo

Spec == Init /\ [][Next]_vars

\* SpecTrie: parsing, then the trie operations the algorithms perform.
NextTrie ==
    \/ AddLine(TrieLines(file.K), MaxLinesTrie)
    \/ ReadBlt
    \/ Eliminate
    \/ Reduce
    \/ ModifyMargin

SpecTrie == Init /\ [][NextTrie]_vars

\* SpecCopy: a deep copy, then arbitrary mutation of the copy or the original.
NextCopy ==
    \/ AddLine(Rankings(file.K), MaxLinesTrie)
    \/ ReadBlt
    \/ Deepcopy
    \/ Eliminate
    \/ Reduce
    \/ GetChild
    \/ ChangeValue
    \/ DeleteChild

SpecCopy == Init /\ [][NextCopy]_vars

\* SpecUb: irv_ub, called by itself and by irv_margin, on elections of up to
\* MaxCandUb candidates.
InitUb == InitK(2..MaxCandUb)

NextUb ==
    \/ AddLine(Rankings(file.K), MaxLinesUb)
    \/ ReadBlt
    \/ IrvUbCall(Rules)
    \/ IrvMarginCall
    \/ IrvUbFor
    \/ IrvUbWhile

SpecUb == InitUb /\ [][NextUb]_vars

\* SpecSel: the elimination-set selector, irv, irv_round (also on the
\* profile it returned) and irv_lb on every tally of single-candidate ballots, on the tally 10, 10, 10, 35, 35 of the file S2File
\* and on the file S1File.
InitSel ==
    /\ heap = EmptyHeap
    /\ \/ \E K \in 1..MaxCandSel : file = BltFile(K, <<>>)
       \/ file = S1File
       \/ file = S2File
       \/ file = S3File
    /\ election = NoElection
    /\ pc = "unread"
    /\ n2 = None
    /\ ret = NoCall
    /\ ops = 0
    /\ wl = {}
    /\ ub = NoUb
    /\ log = <<>>
    /\ disk = NoDisk

NextSel ==
    \/ AddLine(Singles(file.K), MaxLinesSel)
    \/ ReadBlt
    \/ EliminationSet
    \/ Irv
    \/ IrvRound
    \/ IrvRoundAgain
    \/ IrvLbCall
    \/ IrvLbEmpty
    \/ IrvLbPop

SpecSel == InitSel /\ [][NextSel]_vars

\* SpecMargin: irv_lb, irv_ub and irv_margin called in turn on one election.
NextMargin ==
    \/ AddLine(Rankings(file.K), MaxLinesMargin)
    \/ ReadBlt
    \/ LbFirst
    \/ IrvLbEmpty
    \/ IrvLbPop
    \/ UbSecond
    \/ IrvUbFor
    \/ IrvUbWhile
    \/ MarginThird
    \/ IrvMarginSearch({NoTimeout})
    \/ NextCall

SpecMargin == Init /\ [][NextMargin]_vars

\* the clocks of SpecTimeout: a budget of MaxElapsed, up to MaxElapsed passing
\* at each of the first MaxPops pops, and the solver timing out at one of the
\* first MaxSlow calls of distance_to or at none
Clocks ==
    {[timeout |-> MaxElapsed, elapsed |-> el, slow |-> [i \in 1..n |-> i = n], events |-> <<>>] :
        el \in UNION {[1..p -> 0..MaxElapsed] : p \in 0..MaxPops}, n \in 0..MaxSlow}

\* SpecTimeout: irv_margin under every clock of Clocks.
NextTimeout ==
    \/ AddLine(Rankings(file.K), MaxLines)
    \/ ReadBlt
    \/ IrvMarginCall
    \/ IrvUbFor
    \/ IrvUbWhile
    \/ IrvMarginSearch(Clocks)

SpecTimeout == Init /\ [][NextTimeout]_vars

\* SpecReduce: reduce, and reduce again, on tries deep enough for _reduce to
\* eliminate below the first level.
InitReduce == InitK(3..MaxCandReduce)

NextReduce ==
    \/ AddLine(Rankings(file.K), MaxLinesReduce)
    \/ ReadBlt
    \/ ReduceFirst
    \/ ReduceAgain

SpecReduce == InitReduce /\ [][NextReduce]_vars

\* SpecElim: up to MaxOps eliminations on the parsed trie.
InitElim == InitK(1..MaxCandElim)

NextElim ==
    \/ AddLine(Rankings(file.K), MaxLinesTrie)
    \/ ReadBlt
    \/ Eliminate

SpecElim == InitElim /\ [][NextElim]_vars

\* SpecCache: read_blt between writes of the .blt file, with time passing
\* or not between them.
NextCache ==
    \/ Rewrite
    \/ Tick
    \/ ReadBltCached

SpecCache == Init /\ [][NextCache]_vars

\* SpecCondorcet: build_condorcet, condorcet_winner and condorcet_lb on
\* elections of up to MaxCandSel candidates and on the files S1File, S2File
\* and S3File.
NextCondorcet ==
    \/ AddLine(Rankings(file.K), MaxLinesCondorcet)
    \/ ReadBlt
    \/ BuildCondorcet
    \/ CondorcetWinner
    \/ CondorcetLb

SpecCondorcet == InitSel /\ [][NextCondorcet]_vars

\* SpecBlt: files with one or two seats, names followed or not by a blank,
\* and a description line that is whole, lacks its newline or is missing,
\* parsed, written and parsed again.
NextBlt ==
    \/ AddLine(TrieLines(file.K), MaxLinesBlt)
    \/ Header
    \/ ReadBlt
    \/ WriteBlt
    \/ ReadWritten

SpecBlt == Init /\ [][NextBlt]_vars

(***************************************************************************)
(* Properties.                                                             *)
(***************************************************************************)
\* the election the file describes, parsed afresh
Parsed == _read_blt(EmptyHeap, file)

\* some ballot of the file ranks a candidate
Ranked == \E i \in DOMAIN file.lines : Range(file.lines[i]) \cap (1..file.K) # {}

\* the top-choice tallies of a tree
Tally(H, root) == [c \in children(H, root) |-> H.nodes[_children(H, root)[c]].value]

\* value >= sum of the children's values, and value >= 0, at every node
ValueInvariant(H, root) ==
    \A n \in NodesOf(H, root) :
        /\ H.nodes[n].value >= 0
        /\ H.nodes[n].value >= SumOver(Tally(H, n), children(H, n))

\* the ballots that end at some node: sum over the nodes of value minus the
\* children's values
Total(H, root) ==
    LET ns == NodesOf(H, root)
    IN SumOver([n \in ns |-> H.nodes[n].value - SumOver(Tally(H, n), children(H, n))], ns)

\* C1: for every election with K >= 1 candidates, also one in which no ballot
\* ranks a candidate, and for each of the three rule sets, irv returns (no
\* exception) within K rounds a winner that is one of the candidates 1..K.
C1_IrvReturnsWinner ==
    (pc = "done" /\ ret.op = "irv") =>
        /\ ret.exc = ""
        /\ ret.winner \in {<<c>> : c \in 1..file.K}
        /\ ret.r <= file.K

\* C2: a round of irv_round declares a winner if and only if (rules is not
\* COMPLETE_IRV and the highest tally, doubled, exceeds the total of the
\* tallies) or at most two candidates continue; the winner is then the
\* candidate with the most top-choice votes and the other continuing
\* candidates are recorded as the final elimination set; otherwise the round
\* eliminates a non-empty set of continuing candidates (the selector's).
C2_RoundDeclaresWinner ==
    (pc = "done" /\ ret.op \in {"irv", "irv_round"}) =>
        \A i \in DOMAIN ret.trace :
            LET t == ret.trace[i]
                cont == DOMAIN t.tally
                total == SumOver(t.tally, cont)
                majority == \E c \in cont : t.tally[c] * 2 > total
            IN /\ t.declared <=> ((ret.rules # COMPLETE_IRV_RULES /\ majority)
                                  \/ Cardinality(cont) <= 2)
               /\ t.declared =>
                     /\ ret.exc = ""
                     /\ \E c \in cont :
                           /\ ret.winner = <<c>>
                           /\ \A d \in cont : t.tally[d] <= t.tally[c]
                           /\ ret.elimination[Len(ret.elimination)] = cont \ {c}
               /\ ~t.declared =>
                     /\ t.lowest # {}
                     /\ t.lowest \subseteq cont
                     /\ ret.elimination[i] = t.lowest

\* the sets the SF rules may eliminate at once: non-empty, leaving a candidate,
\* with fewer votes in total than any candidate left
Batches(tally) ==
    {E \in SUBSET DOMAIN tally :
        /\ E # {}
        /\ E # DOMAIN tally
        /\ \A c \in (DOMAIN tally) \ E : SumOver(tally, E) < tally[c]}

\* C3: under SF_RCV, _elimination_set returns the largest set E of continuing
\* candidates whose votes add up to less than the votes of every continuing
\* candidate outside E, and the singleton of a lowest candidate when there is
\* no such set; on the tallies 10, 10, 10, 35, 35 it returns {1, 2, 3}, which is
\* also the first elimination set of irv under SF_RCV.
C3_SelectorLargestBatch ==
    /\ (pc = "done" /\ ret.op = "_elimination_set" /\ ret.rules = SFRCV_RULES) =>
          LET tally == Tally(heap, election.profile)
              E == ret.elimination[1]
          IN /\ IF Batches(tally) # {}
                THEN /\ E \in Batches(tally)
                     /\ \A X \in Batches(tally) : Cardinality(X) <= Cardinality(E)
                ELSE \E c \in DOMAIN tally :
                        /\ E = {c}
                        /\ \A d \in DOMAIN tally : tally[c] <= tally[d]
             /\ file = S2File => E = {1, 2, 3}
    /\ (pc = "done" /\ ret.op = "irv" /\ ret.rules = SFRCV_RULES /\ file = S2File) =>
          (ret.exc = "" /\ ret.elimination[1] = {1, 2, 3})

\* a batch of several candidates was chosen although a larger set of lowest
\* candidates could not be eliminated at once
C3_Witness ==
    /\ pc = "done"
    /\ ret.op = "_elimination_set"
    /\ ret.rules = SFRCV_RULES
    /\ Cardinality(ret.elimination[1]) = 2
    /\ Cardinality(Batches(Tally(heap, election.profile))) >= 2
    /\ file.K = 4

\* C4: when irv_lb, irv_margin (with its defaults) and irv_ub all return, and
\* without timeout, on one election: irv_lb <= irv_margin <= irv_ub.
C4_BoundsOrdered ==
    (/\ Len(log) = 3
     /\ \A i \in 1..3 : log[i].exc = ""
     /\ log[3].value # -1) =>
        /\ log[1].op = "irv_lb" /\ log[2].op = "irv_ub" /\ log[3].op = "irv_margin"
        /\ log[1].value <= log[3].value
        /\ log[3].value <= log[2].value

\* all three returned, and the margin lies strictly below the upper bound
C4_Witness ==
    /\ Len(log) = 3
    /\ \A i \in 1..3 : log[i].exc = ""
    /\ log[3].value > 0
    /\ log[1].value <= log[3].value
    /\ log[3].value < log[2].value
    /\ file.K = 3

\* C5: for every election with at least two candidates, irv_simple_lb (under
\* its default rules) and irv_lb both return a number, and
\* irv_simple_lb <= irv_lb.
C5_LowerBoundsReturn ==
    file.K >= 2 =>
        /\ (pc = "done" /\ ret.op = "irv_simple_lb" /\ ret.rules = SFRCV_RULES) =>
              ret.exc = ""
        /\ (pc = "done" /\ ret.op = "irv_lb") =>
              /\ ret.exc = ""
              /\ LET simple == irv_simple_lb(heap, election, SFRCV_RULES)
                 IN simple.exc = "" /\ simple.value <= ret.value

\* C6: for every election with at least two candidates and a ranked ballot,
\* irv_ub never repeats a pass of its while loop without end, raises nothing,
\* and returns 2 * min error[j] over the losing candidates j.
C6_IrvUbReturns ==
    (ret.op = "irv_ub" /\ file.K >= 2 /\ Ranked) =>
        /\ pc # "spins"
        /\ pc = "done" =>
              /\ ret.exc = ""
              /\ DOMAIN ub.error = (1..file.K) \ {ub.winner}
              /\ ret.value = 2 * SetMin({ub.error[j] : j \in DOMAIN ub.error})

\* C7: after root.eliminate(c) no node of the tree has a child keyed c, and
\* root.value, which is the number of ballots that end at some node, is what
\* it was before the call.
C7_EliminateRemoves ==
    [][(ret'.op = "eliminate" /\ ops' = ops + 1) =>
          LET t == ret'.target
              c == ret'.value
          IN /\ \A n \in NodesOf(heap', t) : c \notin children(heap', n)
             /\ heap'.nodes[t].value = heap.nodes[t].value
             /\ Total(heap, t) = heap.nodes[t].value
             /\ Total(heap', t) = heap'.nodes[t].value]_vars

\* a candidate ranked second and third on ballots was eliminated
C7_Witness ==
    /\ ret.op = "eliminate"
    /\ \E i \in DOMAIN file.lines :
          /\ Len(file.lines[i]) = 3
          /\ file.lines[i] \in Rankings(file.K)
          /\ file.lines[i][2] = ret.value
    /\ \E i \in DOMAIN file.lines :
          /\ Len(file.lines[i]) = 3
          /\ file.lines[i] \in Rankings(file.K)
          /\ file.lines[i][3] = ret.value
    /\ NodesOf(heap, ret.target) # {ret.target}

\* C8: after n2 = n.deepcopy() the two trees share no node and no children
\* dict, and a mutation of one (get_child insertion, value change,
\* delete_child, eliminate, reduce) leaves the other structurally as it was.
C8_DeepcopyIndependent ==
    [][n2' # None =>
          /\ NodesOf(heap', n2') \cap NodesOf(heap', election'.profile) = {}
          /\ DictsOf(heap', n2') \cap DictsOf(heap', election'.profile) = {}
          /\ ops' = ops + 1 =>
                LET other == IF ret'.target = n2 THEN election.profile ELSE n2
                IN Tree(heap', other) = Tree(heap, other)]_vars

\* the copy was changed by an eliminate that merged subtrees, and the original
\* still is the parsed profile
C8_Witness ==
    /\ n2 # None
    /\ ret.op = "eliminate"
    /\ ret.target = n2
    /\ ops = MaxOps
    /\ Tree(heap, n2) # Tree(heap, election.profile)
    /\ Tree(heap, election.profile) = Tree(Parsed.h, Parsed.r.profile)
    /\ \E i, j \in DOMAIN file.lines :
          /\ Len(file.lines[i]) = 3
          /\ file.lines[i][1] = ret.value
          /\ file.lines[j] # <<>>
          /\ file.lines[j][1] = file.lines[i][2]

\* C9: every public algorithm leaves election.profile structurally unchanged:
\* from the parse on, through every step of every call, it is the profile the
\* file describes (same children keys, same values).
C9_ProfileUnchanged ==
    pc # "unread" =>
        Tree(heap, election.profile) = Tree(Parsed.h, Parsed.r.profile)

\* irv_margin returned a positive margin: irv, irv_ub, the must-eliminate
\* loop and distance_to all ran on the election
C9_Witness ==
    /\ pc = "done"
    /\ ret.op = "irv_margin"
    /\ ret.exc = ""
    /\ ret.value > 0
    /\ file.K = 3

\* C10: after parsing and after every eliminate, reduce and _modify_margin
\* call, every node has value >= the sum of its children's values and
\* value >= 0.
C10_ValueInvariant ==
    pc # "unread" => ValueInvariant(heap, election.profile)

\* _modify_margin moved ballots in a tree that an earlier operation changed
C10_Witness ==
    /\ ret.op = "_modify_margin"
    /\ ret.exc = ""
    /\ ret.value > 0
    /\ ops = MaxOps
    /\ \E n \in NodesOf(heap, election.profile) :
          n # election.profile /\ children(heap, n) # {}

\* C11: for any trie and any elimination order that is a permutation of its
\* root children, reduce(elim_order) applied twice leaves the tree that one
\* application leaves.
C11_ReduceIdempotent ==
    (ret.op = "reduce_again" /\ ret.target = election.profile) =>
        Tree(heap, election.profile)
            = Tree(reduce(Parsed.h, Parsed.r.profile, ret.elimination), Parsed.r.profile)

\* reduce was applied twice to a trie in which the first application removed
\* a third choice from below a second choice (_reduce at the second level)
C11_Witness ==
    /\ ret.op = "reduce_again"
    /\ Tree(heap, election.profile) # Tree(Parsed.h, Parsed.r.profile)
    /\ \E i \in DOMAIN file.lines :
          /\ Len(file.lines[i]) = 3
          /\ index(ret.elimination, file.lines[i][1]) < index(ret.elimination, file.lines[i][3])
          /\ index(ret.elimination, file.lines[i][3]) < index(ret.elimination, file.lines[i][2])
          /\ index(ret.elimination, file.lines[i][2]) < Len(ret.elimination) - 2

\* C12 as stated: on the election of S1File irv with its default rules
\* returns winner 1, round-1 counts 60, 30, 10 and the elimination list
\* [{3}, {2}].
C12_S1AsStated ==
    (pc = "done" /\ ret.op = "irv" /\ ret.rules = BASE_IRV_RULES /\ file = S1File) =>
        /\ ret.exc = ""
        /\ ret.winner = <<1>>
        /\ DOMAIN ret.counts = {1, 2, 3}
        /\ ret.counts[1][1] = 60 /\ ret.counts[2][1] = 30 /\ ret.counts[3][1] = 10
        /\ ret.elimination = <<{3}, {2}>>

\* C12: on the election of S1File irv returns winner 1 and round-1 counts
\* 60, 30, 10 under every rule set; under its default rules (BASE_IRV) and
\* under SF_RCV it stops in round 1 on the majority of candidate 1 and the
\* elimination list is [{2, 3}]; under COMPLETE_IRV it is [{3}, {2}].
C12_S1Scenario ==
    (pc = "done" /\ ret.op = "irv" /\ file = S1File) =>
        /\ ret.exc = ""
        /\ ret.winner = <<1>>
        /\ DOMAIN ret.counts = {1, 2, 3}
        /\ ret.counts[1][1] = 60 /\ ret.counts[2][1] = 30 /\ ret.counts[3][1] = 10
        /\ IF ret.rules = COMPLETE_IRV_RULES
           THEN /\ ret.elimination = <<{3}, {2}>>
                /\ ret.counts = <<<<60, 60>>, <<30, 40>>, <<10, 0>>>>
           ELSE /\ ret.elimination = <<{2, 3}>>
                /\ ret.counts = <<<<60>>, <<30>>, <<10>>>>

\* irv returned on the election of S1File under its default rules
C12_Witness ==
    /\ pc = "done"
    /\ ret.op = "irv"
    /\ ret.rules = BASE_IRV_RULES
    /\ file = S1File
    /\ ret.winner = <<1>>
    /\ ret.r = 1

\* C13: under COMPLETE_IRV irv on an election of K >= 2 candidates returns an
\* elimination list of exactly K - 1 singleton sets that together hold every
\* candidate but the winner.
C13_CompleteOrder ==
    (pc = "done" /\ ret.op = "irv" /\ ret.rules = COMPLETE_IRV_RULES /\ file.K >= 2) =>
        /\ ret.exc = ""
        /\ Len(ret.winner) = 1
        /\ Len(ret.elimination) = file.K - 1
        /\ \A i \in DOMAIN ret.elimination : Cardinality(ret.elimination[i]) = 1
        /\ UNION Range(ret.elimination) = (1..file.K) \ Range(ret.winner)

\* the ballot lines of the file that rank candidate a
RanksCand(a) == {i \in DOMAIN file.lines : a \in Range(file.lines[i])}

\* C14 as stated: in the matrix of build_condorcet, for distinct candidates
\* a and b, M[a][b] + M[b][a] is at most the number of ballots, with equality
\* if and only if every ballot ranks both a and b.
C14_PairSumsAsStated ==
    (ret.op = "build_condorcet") =>
        \A a, b \in 1..file.K : a # b =>
            /\ ret.m[a][b] + ret.m[b][a] <= Len(file.lines)
            /\ (ret.m[a][b] + ret.m[b][a] = Len(file.lines))
                  <=> (RanksCand(a) \cap RanksCand(b) = DOMAIN file.lines)

\* C14: in the matrix of build_condorcet, for distinct candidates a and b,
\* M[a][b] is the number of ballots that rank a and do not rank b before a;
\* M[a][b] + M[b][a] is at most the number of ballots, with equality if and
\* only if every ballot ranks at least one of a and b.
C14_PairSums ==
    (ret.op = "build_condorcet") =>
        /\ DOMAIN ret.m = 1..file.K
        /\ \A a, b \in 1..file.K : a # b =>
            /\ ret.m[a][b] = Cardinality({i \in RanksCand(a) :
                                 \/ i \notin RanksCand(b)
                                 \/ index(file.lines[i], a) < index(file.lines[i], b)})
            /\ ret.m[a][b] + ret.m[b][a] <= Len(file.lines)
            /\ (ret.m[a][b] + ret.m[b][a] = Len(file.lines))
                  <=> (RanksCand(a) \cup RanksCand(b) = DOMAIN file.lines)

\* a matrix in which a pair sums to the number of ballots although one
\* ballot ranks only one candidate of the pair, and another pair sums to less
C14_Witness ==
    /\ ret.op = "build_condorcet"
    /\ Len(file.lines) = 3
    /\ \E a, b \in 1..file.K :
          /\ a # b
          /\ ret.m[a][b] + ret.m[b][a] = Len(file.lines)
          /\ RanksCand(a) \cap RanksCand(b) # DOMAIN file.lines
          /\ RanksCand(a) \cap RanksCand(b) # {}
    /\ \E a, b \in 1..file.K :
          a # b /\ ret.m[a][b] + ret.m[b][a] < Len(file.lines)

\* C15: condorcet_winner returns the one candidate w with M[w][c] > M[c][w]
\* for every other candidate c, or None when there is none; condorcet_lb
\* returns the least M[w][c] - M[c][w] over the other candidates c for the
\* winner (computed, or given), and 0 when there is no Condorcet winner; the
\* cycle of S3File has no winner and bound 0.
C15_CondorcetWinnerLb ==
    LET M == ret.m
        BeatsAll(w) == \A c \in DOMAIN M \ {w} : M[w][c] > M[c][w]
        LeastOver(w, v) == /\ \A c \in DOMAIN M \ {w} : v <= M[w][c] - M[c][w]
                           /\ \E c \in DOMAIN M \ {w} : v = M[w][c] - M[c][w]
    IN /\ (ret.op = "condorcet_winner") =>
              /\ IF \E w \in DOMAIN M : BeatsAll(w)
                 THEN ret.value \in DOMAIN M /\ BeatsAll(ret.value)
                 ELSE ret.value = None
              /\ \A w \in DOMAIN M : BeatsAll(w) => w = ret.value
              /\ file = S3File => ret.value = None
       /\ (ret.op = "condorcet_lb" /\ ret.target = None) =>
              /\ \A w \in DOMAIN M : (BeatsAll(w) /\ Len(M) >= 2) => LeastOver(w, ret.value)
              /\ (~ \E w \in DOMAIN M : BeatsAll(w)) => ret.value = 0
              /\ file = S3File => ret.value = 0
       /\ (ret.op = "condorcet_lb" /\ ret.target # None /\ Len(M) >= 2) =>
              LeastOver(ret.target, ret.value)

\* condorcet_lb computed the winner of three ballots over three or more
\* candidates and returned a positive bound
C15_Witness ==
    /\ ret.op = "condorcet_lb"
    /\ ret.target = None
    /\ ret.value >= 1
    /\ file.K >= 3
    /\ Len(file.lines) = 3
    /\ \E a, b \in DOMAIN ret.m : a # b /\ ret.m[a][b] = ret.m[b][a] /\ ret.m[a][b] > 0

\* C16: for an election parsed from a file without equal-rank markers,
\* parsing the file write_blt produces gives the same names, ranks, seats and
\* description and a structurally equal profile.
C16_WriteReadRoundTrip ==
    (ret.op = "_read_blt" /\ \A i \in DOMAIN file.lines : Equal \notin Range(file.lines[i])) =>
        /\ ret.e.names = election.names
        /\ ret.e.ranks = election.ranks
        /\ ret.e.seats = election.seats
        /\ ret.e.description = election.description
        /\ ret.e.profile # election.profile
        /\ Tree(heap, ret.e.profile) = Tree(heap, election.profile)

\* a file of two seats with a ballot that ranks nobody, a ballot with a
\* skipped rank and a ballot that stops at an inner node was written as a
\* different file and read again
C16_Witness ==
    /\ ret.op = "_read_blt"
    /\ \A i \in DOMAIN file.lines : Equal \notin Range(file.lines[i])
    /\ file.seats = 2
    /\ ret.path # file
    /\ \E i, j, k \in DOMAIN file.lines :
          /\ file.lines[i] = <<>>
          /\ Skip \in Range(file.lines[j])
          /\ Range(file.lines[j]) # {Skip}
          /\ Len(file.lines[k]) = 3
          /\ Skip \notin Range(file.lines[k])

\* C17: in the search of irv_margin, when a call of distance_to returns -1,
\* or the time budget left is <= 0 at a pop of an entry that is not a full
\* order, irv_margin returns -1; no cost -1 is pushed; and a cost is returned
\* only as the cost of a popped full order.
C17_TimeoutPropagates ==
    (pc = "done" /\ ret.op = "irv_margin" /\ ret.target # None /\ ret.exc = "") =>
        LET k == num_children(heap, ret.target)
            ev == ret.events
        IN /\ \A i \in DOMAIN ev :
                 /\ (ev[i].ev = "distance_to" /\ ev[i].d = -1) => ret.value = -1
                 /\ (ev[i].ev = "pop" /\ ev[i].n < k /\ ev[i].left <= 0) => ret.value = -1
                 /\ ev[i].ev = "push" => ev[i].d # -1
           /\ ret.value # -1 =>
                 /\ ev # <<>>
                 /\ ev[Len(ev)] = [ev |-> "pop", d |-> ret.value, n |-> k,
                                    left |-> ev[Len(ev)].left]
                 /\ \A i \in DOMAIN ev : ev[i].ev = "pop" /\ i # Len(ev) => ev[i].n < k
           /\ ret.value = -1 =>
                 \/ ev[Len(ev)].ev = "distance_to" /\ ev[Len(ev)].d = -1
                 \/ ev[Len(ev)].ev = "pop" /\ ev[Len(ev)].n < k /\ ev[Len(ev)].left <= 0

\* the solver timed out at the third call of distance_to, after a cost was
\* pushed and a second entry popped with time left, and irv_margin returned -1
C17_Witness ==
    /\ pc = "done"
    /\ ret.op = "irv_margin"
    /\ ret.exc = ""
    /\ ret.value = -1
    /\ \E i, j, l \in DOMAIN ret.events :
          /\ i < j /\ j < l /\ l = Len(ret.events)
          /\ ret.events[i].ev = "push"
          /\ ret.events[j].ev = "pop" /\ ret.events[j].left = 1
          /\ ret.events[l].ev = "distance_to" /\ ret.events[l].d = -1

\* C18: after root.eliminate(c) on the parsed trie, the trie is structurally
\* equal to the trie of the ballots with c deleted from each (c no longer a
\* candidate of the root); root.value is unchanged; and the value of every
\* other child g of the root is the number of ballots whose first-ranked
\* candidate other than c is g.
C18_EliminateTransfers ==
    (ret.op = "eliminate" /\ ops = 1 /\ ret.target = election.profile) =>
        LET c == ret.value
            Without(l) == SelectSeq(l, LAMBDA x : x # c)
            \* the candidates a line ranks: the tokens before the first "="
            Ranking(l) == SelectSeq(SubSeq(l, 1, SetMin({i \in DOMAIN l : l[i] = Equal}
                                                       \cup {Len(l) + 1}) - 1),
                                    LAMBDA x : x # Skip)
            deleted == _read_blt(EmptyHeap,
                                 [file EXCEPT !.lines = [i \in DOMAIN @ |-> Without(@[i])]])
        IN /\ Tree(heap, election.profile)
                 = Tree(delete_child(deleted.h, deleted.r.profile, c), deleted.r.profile)
           /\ heap.nodes[election.profile].value = Len(file.lines)
           /\ children(heap, election.profile) = (1..file.K) \ {c}
           /\ \A g \in (1..file.K) \ {c} :
                 child_value(heap, election.profile, g)
                     = Cardinality({i \in DOMAIN file.lines :
                                       /\ Without(Ranking(file.lines[i])) # <<>>
                                       /\ Without(Ranking(file.lines[i]))[1] = g})

\* the eliminated candidate was ranked first on one ballot and second on
\* another, and the ballots it led were merged into a child that had children
C18_Witness ==
    /\ ret.op = "eliminate"
    /\ ops = 1
    /\ ret.target = election.profile
    /\ \E i, j \in DOMAIN file.lines :
          /\ file.lines[i] \in Rankings(file.K) /\ Len(file.lines[i]) = 3
          /\ file.lines[j] \in Rankings(file.K) /\ Len(file.lines[j]) = 3
          /\ file.lines[i][1] = ret.value
          /\ file.lines[j][2] = ret.value
          /\ file.lines[j][1] = file.lines[i][2]
          /\ child_value(heap, election.profile, file.lines[j][1]) = 2

\* C19: after reduce(elim_order) on the parsed trie, a node keyed by one of
\* the last two candidates of elim_order has no children; along every path
\* from the root the candidates come in strictly increasing elim_order
\* position; root.value and the values of the root's children are unchanged.
C19_ReduceShape ==
    (ret.op = "reduce" /\ ret.target = election.profile /\ Len(ret.elimination) >= 2) =>
        LET root == election.profile
            k == Len(ret.elimination)
        IN /\ \A p \in PathsOf(heap, root, <<>>) :
                 /\ (p[1] # <<>> /\ index(ret.elimination, p[1][Len(p[1])]) >= k - 2)
                       => children(heap, p[2]) = {}
                 /\ \A a, b \in DOMAIN p[1] :
                       a < b => index(ret.elimination, p[1][a]) < index(ret.elimination, p[1][b])
           /\ heap.nodes[root].value = Parsed.h.nodes[Parsed.r.profile].value
           /\ Tally(heap, root) = Tally(Parsed.h, Parsed.r.profile)

\* reduce eliminated a candidate below the second candidate of one ballot and
\* cut another ballot at one of the last two candidates of the order
C19_Witness ==
    /\ ret.op = "reduce"
    /\ ret.target = election.profile
    /\ \E i, j \in DOMAIN file.lines :
          /\ Len(file.lines[i]) = 3
          /\ index(ret.elimination, file.lines[i][1]) < index(ret.elimination, file.lines[i][3])
          /\ index(ret.elimination, file.lines[i][3]) < index(ret.elimination, file.lines[i][2])
          /\ index(ret.elimination, file.lines[i][2]) < Len(ret.elimination) - 2
          /\ Len(file.lines[j]) = 3
          /\ index(ret.elimination, file.lines[j][1]) < index(ret.elimination, file.lines[j][2])
          /\ index(ret.elimination, file.lines[j][2]) >= Len(ret.elimination) - 2
          /\ file.lines[j][1] # file.lines[i][1]
    /\ \E p \in PathsOf(heap, election.profile, <<>>) : Len(p[1]) = 2

\* C20: under BASE_IRV and COMPLETE_IRV, in every round the elimination set
\* is the singleton of the first candidate in iteration order with the least
\* top-choice votes, and the high candidate (the winner when the round
\* declares one) is the first in iteration order with the most.
C20_TiesByIterationOrder ==
    (pc = "done" /\ ret.op = "irv" /\ ret.rules # SFRCV_RULES) =>
        \A r \in DOMAIN ret.trace :
            LET t == ret.trace[r]
                order == iterkeys(DOMAIN t.tally)
                FirstWith(v) == order[SetMin({i \in DOMAIN order : t.tally[order[i]] = v})]
                least == SetMin(Range(t.tally))
                most == CHOOSE v \in Range(t.tally) : \A w \in Range(t.tally) : w <= v
            IN /\ t.high_candidate = FirstWith(most)
               /\ t.declared => ret.winner = <<FirstWith(most)>>
               /\ ~t.declared => t.lowest = {FirstWith(least)}

RECURSIVE LbTraces(_, _, _, _)
\* every way of reducing the profile to one candidate by batches of Batches:
\* the sequence s of the sets with the least round margin m along it
LbTraces(H, root, m, s) ==
    IF num_children(H, root) = 1 THEN {[m |-> m, s |-> s]}
    ELSE LET tally == Tally(H, root)
         IN UNION {LbTraces(EliminateAll(H, root, iterkeys(E)), root,
                            Min(m, SetMin({tally[c] : c \in (DOMAIN tally) \ E})
                                      - SumOver(tally, E)),
                            Append(s, E)) : E \in Batches(tally)}

\* C21: when the profile can be reduced to one candidate by a sequence of
\* valid SF batch sets, irv_lb returns the largest, over those sequences, of
\* the least round margin along the sequence, and the eliminations it reports
\* are a sequence attaining that value.
C21_IrvLbMaxMin ==
    (pc = "done" /\ ret.op = "irv_lb") =>
        LET T == LbTraces(heap, election.profile, maxint, <<>>)
        IN /\ T # {} => ret.exc = ""
           /\ ret.exc = "" =>
                 /\ [m |-> ret.value, s |-> ret.elimination] \in T
                 /\ \A t \in T : t.m <= ret.value

\* irv_lb returned the larger of the margins of two sequences, reached by
\* eliminating two candidates with ballots at once
C21_Witness ==
    /\ pc = "done"
    /\ ret.op = "irv_lb"
    /\ ret.exc = ""
    /\ \E t \in LbTraces(heap, election.profile, maxint, <<>>) : t.m < ret.value
    /\ \E i \in DOMAIN ret.elimination :
          \E a, b \in ret.elimination[i] :
              /\ a # b
              /\ \E j \in DOMAIN file.lines : file.lines[j] = <<a>>
              /\ \E j \in DOMAIN file.lines : file.lines[j] = <<b>>

\* C22: for every call _modify_margin(root, m, j, k, ...) with m >= 0 the
\* returned count changed is >= 0, every node value of the tree is >= 0
\* afterwards, and the net shift exceeds m: 2 * changed > m.
C22_ShiftExceedsMargin ==
    (ret.op = "_modify_margin" /\ ret.exc = "" /\ ret.r >= 0) =>
        /\ ret.value >= 0
        /\ \A n \in NodesOf(heap, ret.target) : heap.nodes[n].value >= 0
        /\ 2 * ret.value > ret.r

\* the ballots that end at the node n itself
Own(H, n) == H.nodes[n].value - SumOver(Tally(H, n), children(H, n))

\* C23: a call of _modify_margin that returns changed lowers
\* root.child(k).value by changed and raises root.child(j).value by changed;
\* the subtree of j, the other root children with their subtrees, and
\* root.value are as before; and a node loses ballots of its own terminating
\* count only when all of its children have been depleted and detached.
C23_StealFrame ==
    [][(ret'.op = "_modify_margin" /\ ops' = ops + 1 /\ ret'.exc = "") =>
          LET t == ret'.target
              j == ret'.winner[1]
              k == ret'.winner[2]
              changed == ret'.value
              old == _children(heap, t)
              new == _children(heap', t)
          IN /\ DOMAIN new = DOMAIN old
             /\ heap'.nodes[new[k]].value = heap.nodes[old[k]].value - changed
             /\ heap'.nodes[new[j]].value = heap.nodes[old[j]].value + changed
             /\ Tree(heap', new[j]).kids = Tree(heap, old[j]).kids
             /\ \A c \in (DOMAIN old) \ {j, k} : Tree(heap', new[c]) = Tree(heap, old[c])
             /\ heap'.nodes[t].value = heap.nodes[t].value
             /\ \A n \in NodesOf(heap, old[k]) :
                   Own(heap', n) < Own(heap, n) => children(heap', n) = {}]_vars

\* ballots were moved from a second choice below k and from k's own count
C23_Witness ==
    /\ ret.op = "_modify_margin"
    /\ ret.exc = ""
    /\ ret.value = 2
    /\ ops = 1
    /\ \E i, l \in DOMAIN file.lines :
          /\ file.lines[i] = <<ret.winner[2]>>
          /\ Len(file.lines[l]) = 2
          /\ file.lines[l][1] = ret.winner[2]
          /\ file.lines[l][2] \in 1..file.K
    /\ child_value(heap, ret.target, ret.winner[2]) = 0

\* C24: in the problem distance_to builds for an order of k >= 2 candidates,
\* the signatures are the sets of at most ranks order positions that do not
\* hold both k-1 and k-2; in every round r of 0..k-2 a signature counts for
\* its lowest position >= r and for no position when it has none; and the
\* constraints are the ballot balance equality followed by one inequality
\* for each pair of a round r and a later position, k(k-1)/2 of them, as
\* many as the senses string has letters L after its E.
C24_ProblemShape ==
    (pc = "done" /\ ret.op = "distance_to" /\ ret.exc = "" /\ Len(ret.elimination) >= 2) =>
        LET k == Len(ret.elimination)
            P == ret.prob
            later(a, r) == {x \in P.names[a] : x >= r}
        IN /\ Range(P.names) = {sub \in SUBSET (0..(k - 1)) :
                                    /\ Cardinality(sub) <= election.ranks
                                    /\ ~({k - 1, k - 2} \subseteq sub)}
           /\ \A a, b \in DOMAIN P.names : P.names[a] = P.names[b] => a = b
           /\ DOMAIN P.special = 0..(k - 2)
           /\ \A r \in 0..(k - 2) :
                 /\ DOMAIN P.special[r] = r..(k - 1)
                 /\ \A a \in DOMAIN P.names : \A i \in r..(k - 1) :
                       a \in P.special[r][i]
                           <=> (later(a, r) # {} /\ i = SetMin(later(a, r)))
           /\ Len(P.constraints) = 1 + (k * (k - 1)) \div 2
           /\ Len(P.senses) = Len(P.constraints)
           /\ P.constraints[1] = [r |-> -1, t |-> -1]
           /\ P.senses[1] = "E"
           /\ \A x \in 2..Len(P.senses) : P.senses[x] = "L"
           /\ {P.constraints[x] : x \in 2..Len(P.constraints)}
                 = {c \in [r : 0..(k - 2), t : 1..(k - 1)] : c.r < c.t}

\* three candidates and ballots of three ranks: the signature of positions 0
\* and 2 counts for position 0 in round 0 and for position 2 in round 1
C24_Witness ==
    /\ pc = "done"
    /\ ret.op = "distance_to"
    /\ ret.exc = ""
    /\ Len(ret.elimination) = 3
    /\ election.ranks = 3
    /\ Len(ret.prob.constraints) = 4
    /\ \E a \in DOMAIN ret.prob.names :
          /\ ret.prob.names[a] = {0, 2}
          /\ a \in ret.prob.special[0][0]
          /\ a \in ret.prob.special[1][2]

\* C25: wherever irv_round stops, after any number of rounds, the
\* elimination sets of the rounds that declared no winner are non-empty and
\* hold only candidates that the working profile no longer has, and all the
\* sets recorded are pairwise disjoint; when a winner is returned, the sets
\* and {winner} partition the candidates of the profile; and under SF_RCV the
\* set eliminated in a round is never the whole set of continuing candidates.
C25_EliminationSets ==
    (pc = "done" /\ ret.op = "irv_round" /\ ret.exc = "") =>
        LET E == ret.elimination
            candidates == children(heap, election.profile)
            nonfinal == IF ret.winner # <<>> THEN 1..(Len(E) - 1) ELSE 1..Len(E)
        IN /\ \A i \in nonfinal :
                 /\ E[i] # {}
                 /\ E[i] \subseteq candidates
                 /\ E[i] \cap children(heap, ret.target) = {}
           /\ \A i, l \in DOMAIN E : i # l => E[i] \cap E[l] = {}
           /\ ret.winner # <<>> =>
                 /\ UNION Range(E) \cup {ret.winner[1]} = candidates
                 /\ ret.winner[1] \notin UNION Range(E)
           /\ ret.rules = SFRCV_RULES =>
                 \A r \in DOMAIN ret.trace :
                     ~ret.trace[r].declared =>
                         /\ ret.trace[r].lowest \subseteq DOMAIN ret.trace[r].tally
                         /\ ret.trace[r].lowest # DOMAIN ret.trace[r].tally

\* under SF_RCV a candidate without ballots and then one of three tied
\* candidates were eliminated before the winner was declared
C25_Witness ==
    /\ pc = "done"
    /\ ret.op = "irv_round"
    /\ ret.exc = ""
    /\ ret.rules = SFRCV_RULES
    /\ ret.winner # <<>>
    /\ Len(ret.elimination) = 3
    /\ \A i \in 1..3 : Cardinality(ret.elimination[i]) = 1
    /\ ret.trace[2].high_votes = 2
    /\ num_children(heap, ret.target) = 2

\* C26: when irv_round(p, a, rules) returns no winner, elimination E1 and
\* profile p1, then irv_round(p1, b, rules) ends as irv_round(p, a + b, rules)
\* does, with the same winner and with the elimination sets that follow E1 in
\* the elimination of irv_round(p, a + b, rules); and the profile irv_round
\* returns has the candidates of p that are in no elimination set of a round
\* without winner: the set of the round that declares the winner stays.
C26_ReplayComposes ==
    /\ (pc = "done" /\ ret.op = "irv_round" /\ ret.exc = "") =>
          LET E == ret.elimination
              nonfinal == IF ret.winner # <<>> THEN 1..(Len(E) - 1) ELSE 1..Len(E)
          IN children(heap, ret.target)
                = children(heap, election.profile) \ UNION {E[i] : i \in nonfinal}
    /\ (pc = "done" /\ ret.op = "irv_round_again") =>
          LET whole == irv_round(heap, election.profile, ret.prev.value + ret.value, ret.rules)
          IN /\ ret.exc = whole.exc
             /\ ret.exc = "" =>
                   /\ ret.winner = whole.winner
                   /\ whole.elimination = ret.prev.elimination \o ret.elimination

\* after one round without winner that transferred ballots, a second call
\* declared the winner in its first round
C26_Witness ==
    /\ pc = "done"
    /\ ret.op = "irv_round_again"
    /\ ret.exc = ""
    /\ ret.prev.value = 1
    /\ ret.value >= 1
    /\ ret.winner # <<>>
    /\ Len(ret.elimination) = 1
    /\ ret.trace[1].high_votes > ret.prev.trace[1].high_votes

\* C27: for any trie and any two distinct candidates a and b, eliminate(a)
\* followed by eliminate(b) leaves a tree structurally equal to the one that
\* eliminate(b) followed by eliminate(a) leaves.
C27_EliminateCommutes ==
    [][(/\ ret.op = "eliminate" /\ ops = 1
        /\ ret'.op = "eliminate" /\ ops' = 2
        /\ ret'.value # ret.value) =>
          LET a == ret.value
              b == ret'.value
          IN Let(Parsed, LAMBDA P :
                 Tree(heap', election.profile)
                    = Tree(eliminate(eliminate(P.h, P.r.profile, b), P.r.profile, a),
                           P.r.profile))]_vars

\* two of four candidates were eliminated from a trie in which one ballot
\* ranks them first and third and another ranks one of them before a
\* candidate that stays
C27_Witness ==
    /\ ret.op = "eliminate"
    /\ ops = 2
    /\ file.K = 4
    /\ num_children(heap, election.profile) = 2
    /\ \E i, l \in DOMAIN file.lines :
          /\ Len(file.lines[i]) = 3
          /\ file.lines[i][1] \notin children(heap, election.profile)
          /\ file.lines[i][2] \in children(heap, election.profile)
          /\ file.lines[i][3] \notin children(heap, election.profile)
          /\ Len(file.lines[l]) = 3
          /\ file.lines[l][1] = file.lines[i][3]
          /\ file.lines[l][2] \in children(heap, election.profile) \ {file.lines[i][2]}
          /\ file.lines[l][3] = file.lines[i][2]
    /\ \E n \in NodesOf(heap, election.profile) :
          n # election.profile /\ children(heap, n) # {}

\* C28: for every election with K >= 1 candidates the work queue of irv_lb
\* is non-empty at every pop, also when a profile it reaches has no valid SF
\* batch set, and irv_lb ends with a value.
C28_QueueNonEmpty ==
    (ret.op = "irv_lb" /\ file.K >= 1) =>
        /\ pc = "irv_lb" => wl # {}
        /\ pc = "done" => ret.exc = ""

\* C29: at every call of _modify_margin that irv_ub makes, j is a child of
\* the root of the working profile advanced by l rounds and belongs to
\* mod_elim_order[l], k is a continuing candidate outside that set that is in
\* the steal order, and m >= 0, so that no assertion fails and no lookup
\* raises on the way to the call; both when irv_ub computes the winner and the
\* elimination order itself and when irv_margin passes those of BASE_IRV
\* while irv_ub replays rounds under SF_RCV.
C29_ShiftPreconditions ==
    (ret.op \in {"irv_ub", "irv_margin"} /\ file.K >= 2 /\ Ranked) =>
        /\ ub.pre # <<>> =>
              /\ ub.pre.j_child
              /\ ub.pre.k_child
              /\ ub.pre.k_outside
              /\ ub.pre.k_in_order
              /\ ub.pre.m >= 0
        /\ pc = "done" => ret.exc \notin {"AssertionError", "IndexError", "ValueError"}

\* what an election object holds: its fields and the tree of its profile
ElectionValue(H, e) ==
    [names |-> e.names, ranks |-> e.ranks, seats |-> e.seats,
     description |-> e.description, profile |-> Tree(H, e.profile)]

\* C30: after any sequence of writes to the .blt file and of read_blt calls,
\* read_blt returns the election that the current contents of the .blt file
\* encode, also when the pickle and the .blt have equal modification times.
C30_CacheNeverStale ==
    ret.op = "read_blt" =>
        Let(Parsed, LAMBDA P : ElectionValue(heap, election) = ElectionValue(P.h, P.r))

====
